---- MODULE Spec2Model ----
(***************************************************************************)
(* Endpoint integration layer of maplibre-gl-earth-engine                  *)
(* (src/lib/ee/endpoint.ts): response parsing, capability negotiation and  *)
(* the four endpoint operations of one client instance.                    *)
(***************************************************************************)
EXTENDS Integers, Sequences, FiniteSets, TLC

VARIABLES
    cachedCapabilities, \* the client's capability cache (null until a tile response is read)
    inflight,           \* requests sent and not yet answered, in the order they were issued
    last,               \* the most recent call / completion and what it produced
    parseData,          \* argument handed to parseTileUrlFromResponse
    parseResult,        \* what parseTileUrlFromResponse produced for parseData
    parsePc,            \* "start" before the call, "done" after it ("idle" in the client's runs)
    urlIn,              \* endpoint string handed to normalizeEndpointUrl / createEndpointClient
    urlOut,             \* normalizeEndpointUrl(urlIn)
    urlAgain,           \* normalizeEndpointUrl(urlOut)
    created,            \* what createEndpointClient returned or threw for urlIn
    urlPc,              \* "start", then "normalized", "renormalized" or "created"
    payloadIn,          \* tile payload whose request is being looked at on its own
    catItems,           \* record list handed to filterCatalog / queryCatalog
    catQuery,           \* query handed to queryCatalog (its keyword goes to filterCatalog)
    catFiltered,        \* what filterCatalog returned
    catResult,          \* what queryCatalog returned
    catPc,              \* "start", then "filtered", "queried" or "grouped"
    fetchFeeds,         \* what the two catalog feeds answer: reached or not, and the text
    fetchHeaders,       \* feeds whose fetch has settled, in the order they settled
    fetchBodies,        \* feeds whose text() has settled, in the order they settled
    fetchResult,        \* what fetchCatalogs resolved or rejected with
    fetchPc,            \* "start", "fetching", "reading", "done"
    mapSources,         \* the map's sources: id -> source
    mapLayers,          \* the map's layers: id -> layer
    mapOps,             \* the map methods the latest addTileUrlLayer called, in call order
    renders,            \* renderEeLayer calls waiting for getMapId, in the order they were made
    layerDone,          \* how the latest layer call ended, and the tile URL of the latest that added
    tileEndpoint,       \* PluginControl._tileEndpoint
    tileEndpointToken,  \* PluginControl._tileEndpointToken
    endpointClient,     \* PluginControl._endpointClient: "client" or "none" (undefined)
    attached,           \* the control is on a map: _map is set and its panel is in the document
    inspectorActive,    \* PluginControl._inspectorActive
    mapClickHandler,    \* PluginControl._mapClickHandler holds a handler
    clickHandlers,      \* how many inspector handlers the map has registered for 'click'
    tsFrames,           \* PluginControl._timeSeriesFrames (the labels of the frames)
    tsIndex,            \* PluginControl._timeSeriesIndex
    tsButtons,          \* how many frame buttons the panel's list shows
    tsLoads,            \* _loadTimeSeriesFrame calls waiting on the endpoint
    ui                  \* the latest handler of the control that ran, and what it met

vars == <<cachedCapabilities, inflight, last, parseData, parseResult, parsePc,
          urlIn, urlOut, urlAgain, created, urlPc, payloadIn,
          catItems, catQuery, catFiltered, catResult, catPc,
          fetchFeeds, fetchHeaders, fetchBodies, fetchResult, fetchPc,
          mapSources, mapLayers, mapOps, renders, layerDone,
          tileEndpoint, tileEndpointToken, endpointClient, attached,
          inspectorActive, mapClickHandler, clickHandlers,
          tsFrames, tsIndex, tsButtons, tsLoads, ui>>

clientVars == <<cachedCapabilities, inflight, last>>
parseVars == <<parseData, parseResult, parsePc>>
urlVars == <<urlIn, urlOut, urlAgain, created, urlPc>>
payloadVars == <<payloadIn>>
catalogVars == <<catItems, catQuery, catFiltered, catResult, catPc>>
fetchVars == <<fetchFeeds, fetchHeaders, fetchBodies, fetchResult, fetchPc>>
layerVars == <<mapSources, mapLayers, mapOps, renders, layerDone>>
settingsVars == <<tileEndpoint, tileEndpointToken, endpointClient>>
panelVars == <<attached, inspectorActive, mapClickHandler, clickHandlers,
               tsFrames, tsIndex, tsButtons, tsLoads>>
controlVars == <<settingsVars, panelVars, ui>>
laterVars == <<fetchVars, layerVars, controlVars>>

----------------------------------------------------------------------------
(* Bounds *)

MaxInFlight == 2

----------------------------------------------------------------------------
(* JavaScript values: a tag and a payload (strings carry their text). *)

Undefined == [t |-> "undefined", v |-> ""]
Null == [t |-> "null", v |-> ""]
Obj == [t |-> "object", v |-> ""]
Str(s) == [t |-> "string", v |-> s]
Num(s) == [t |-> "number", v |-> s]
True == [t |-> "boolean", v |-> "true"]
False == [t |-> "boolean", v |-> "false"]

\* typeof x
TypeOf(x) == IF x.t = "null" THEN "object" ELSE x.t

\* ToBoolean(x), as applied by !, &&, || and Boolean()
Truthy(x) ==
    CASE x.t = "string" -> x.v # ""
      [] x.t = "number" -> x.v \notin {"0", "NaN"}
      [] x.t = "boolean" -> x.v = "true"
      [] x.t = "object" -> TRUE
      [] OTHER -> FALSE

\* Boolean(x)
Boolean(x) == IF Truthy(x) THEN True ELSE False

\* a && b, a || b
JsAnd(a, b) == IF Truthy(a) THEN b ELSE a
JsOr(a, b) == IF Truthy(a) THEN a ELSE b

\* a comparison such as typeof x === 'string', as a JavaScript boolean
JsBool(b) == IF b THEN True ELSE False

\* obj.key where obj is a structured field {raw, key...}: a property read on
\* a non-object primitive yields undefined
Prop(obj, key) == IF obj.raw.t = "object" THEN obj[key] ELSE Undefined

----------------------------------------------------------------------------
(* The deserialized JSON body of an endpoint response. *)

\* a field that is not an array: tiles = raw
NotArray(raw) == [isArray |-> FALSE, raw |-> raw, items |-> <<>>]
\* tiles = [items...]
Array(items) == [isArray |-> TRUE, raw |-> Obj, items |-> items]
\* Array.isArray(a)
IsArray(a) == a.isArray
\* a[0]
Item0(a) == IF a.isArray /\ Len(a.items) >= 1 THEN a.items[1] ELSE Undefined

\* data = raw (a primitive, undefined when absent) or data = {tileUrl, urlFormat}
DataPrim(raw) == [raw |-> raw, tileUrl |-> Undefined, urlFormat |-> Undefined]
DataObj(tileUrl, urlFormat) == [raw |-> Obj, tileUrl |-> tileUrl, urlFormat |-> urlFormat]

\* capabilities = raw (a primitive) or capabilities = {inspect, export, timeSeries}
CapsPrim(raw) == [raw |-> raw, inspect |-> Undefined, export |-> Undefined, timeSeries |-> Undefined]
CapsObj(i, e, ts) == [raw |-> Obj, inspect |-> i, export |-> e, timeSeries |-> ts]

EmptyBody ==
    [tile_url |-> Undefined, tileUrl |-> Undefined, urlFormat |-> Undefined,
     tiles |-> NotArray(Undefined), data |-> DataPrim(Undefined),
     capabilities |-> CapsPrim(Undefined)]

----------------------------------------------------------------------------
(* Results of calls that either return or throw. *)

Return(x) == [threw |-> FALSE, value |-> x, message |-> <<>>]
Throw(msg) == [threw |-> TRUE, value |-> Undefined, message |-> msg]

MissingFieldMessage == <<"Tile endpoint response missing tileUrl/urlFormat/tiles[0].">>

\* TileUrlExpr with the camel-case field consulted before the snake-case one
TileUrlExprReordered(data) ==
    JsOr(JsAnd(JsBool(TypeOf(data.tileUrl) = "string"), data.tileUrl),
    JsOr(JsAnd(JsBool(TypeOf(data.tile_url) = "string"), data.tile_url),
    JsOr(JsAnd(JsBool(TypeOf(data.urlFormat) = "string"), data.urlFormat),
    JsOr(JsAnd(JsBool(IsArray(data.tiles)),
               JsAnd(JsBool(TypeOf(Item0(data.tiles)) = "string"), Item0(data.tiles))),
    JsOr(IF Truthy(JsAnd(data.data.raw, JsBool(TypeOf(Prop(data.data, "tileUrl")) = "string")))
            THEN Prop(data.data, "tileUrl") ELSE Undefined,
         IF Truthy(JsAnd(data.data.raw, JsBool(TypeOf(Prop(data.data, "urlFormat")) = "string")))
            THEN Prop(data.data, "urlFormat") ELSE Undefined)))))

\* the value of the || chain of parseTileUrlFromResponse
TileUrlExpr(data) ==
    JsOr(JsAnd(JsBool(TypeOf(data.tile_url) = "string"), data.tile_url),
    JsOr(JsAnd(JsBool(TypeOf(data.tileUrl) = "string"), data.tileUrl),
    JsOr(JsAnd(JsBool(TypeOf(data.urlFormat) = "string"), data.urlFormat),
    JsOr(JsAnd(JsBool(IsArray(data.tiles)),
               JsAnd(JsBool(TypeOf(Item0(data.tiles)) = "string"), Item0(data.tiles))),
    JsOr(IF Truthy(JsAnd(data.data.raw, JsBool(TypeOf(Prop(data.data, "tileUrl")) = "string")))
            THEN Prop(data.data, "tileUrl") ELSE Undefined,
         IF Truthy(JsAnd(data.data.raw, JsBool(TypeOf(Prop(data.data, "urlFormat")) = "string")))
            THEN Prop(data.data, "urlFormat") ELSE Undefined)))))

\* parseTileUrlFromResponse without the guard on the extracted value
parseTileUrlFromResponseUnchecked(data) == Return(TileUrlExpr(data))

parseTileUrlFromResponse(data) ==
    LET tileUrl == TileUrlExpr(data)
    IN  IF ~Truthy(tileUrl) THEN Throw(MissingFieldMessage) ELSE Return(tileUrl)

----------------------------------------------------------------------------
(* HTTP responses as fetch() delivers them. *)

\* a fetch that resolved: status line, body text, and the body's JSON parse
\* (<<>> when the text is not JSON)
Http(status, text, json) == [kind |-> "http", status |-> status, text |-> text, json |-> json]
\* a fetch that rejected
NetworkError == [kind |-> "networkError", status |-> 0, text |-> "", json |-> <<>>]

\* response.ok taken to cover every status below 500
OkBelow500(resp) == resp.status \in 200..499

\* response.ok
Ok(resp) == resp.status \in 200..299

FetchFailedMessage == <<"TypeError: fetch failed">>
JsonSyntaxMessage == <<"SyntaxError: Unexpected token in JSON">>

\* postJson from the point where fetch settles with resp
postJson(resp) ==
    IF resp.kind = "networkError" THEN Throw(FetchFailedMessage)
    ELSE IF ~Ok(resp)
         THEN Throw(<<"Endpoint error (", ToString(resp.status), "): ",
                      IF resp.text # "" THEN resp.text ELSE "Unknown error">>)
    ELSE IF resp.json = <<>> THEN Throw(JsonSyntaxMessage)
    ELSE Return(resp.json[1])

\* parseCapabilities folding the new flags into the snapshot already held
parseCapabilitiesMerged(data) ==
    LET capsRaw == data.capabilities
        Merge(f) == Boolean(JsOr(cachedCapabilities[f], Prop(capsRaw, f)))
    IN  IF ~Truthy(capsRaw.raw)
        THEN IF Truthy(cachedCapabilities.raw) THEN cachedCapabilities
             ELSE CapsObj(Undefined, Undefined, Undefined)
        ELSE CapsObj(Merge("inspect"), Merge("export"), Merge("timeSeries"))

\* parseCapabilities answering null for a response without capabilities
parseCapabilitiesNullable(data) ==
    LET capsRaw == data.capabilities
    IN  IF ~Truthy(capsRaw.raw) THEN CapsPrim(Null)
        ELSE CapsObj(Boolean(Prop(capsRaw, "inspect")),
                     Boolean(Prop(capsRaw, "export")),
                     Boolean(Prop(capsRaw, "timeSeries")))

\* parseCapabilities copying the flags without the Boolean() coercion
parseCapabilitiesUncoerced(data) ==
    LET capsRaw == data.capabilities
    IN  IF ~Truthy(capsRaw.raw) THEN CapsObj(Undefined, Undefined, Undefined)
        ELSE CapsObj(Prop(capsRaw, "inspect"), Prop(capsRaw, "export"),
                     Prop(capsRaw, "timeSeries"))

parseCapabilities(data) ==
    LET capsRaw == data.capabilities
    IN  IF ~Truthy(capsRaw.raw) THEN CapsObj(Undefined, Undefined, Undefined)
        ELSE CapsObj(Boolean(Prop(capsRaw, "inspect")),
                     Boolean(Prop(capsRaw, "export")),
                     Boolean(Prop(capsRaw, "timeSeries")))

----------------------------------------------------------------------------
(* createEndpointClient: the closure state and the five methods. *)

Features == {"inspect", "export", "timeSeries"}

UnsupportedMessage(feature) ==
    <<"Endpoint does not advertise ", feature, " support. Configure an endpoint with ",
      feature, " capability or use tile-only mode.">>

\* ensureSupported refusing every feature until a snapshot says otherwise
ensureSupportedStrict(feature) ==
    IF Truthy(cachedCapabilities.raw) /\ Truthy(cachedCapabilities[feature])
    THEN Return(Undefined)
    ELSE Throw(UnsupportedMessage(feature))

\* ensureSupported refusing only a flag that is the boolean false
ensureSupportedLax(feature) ==
    IF ~Truthy(cachedCapabilities.raw) THEN Return(Undefined)
    ELSE IF cachedCapabilities[feature] # False THEN Return(Undefined)
    ELSE Throw(UnsupportedMessage(feature))

ensureSupported(feature) ==
    IF ~Truthy(cachedCapabilities.raw) THEN Return(Undefined)
    ELSE IF Truthy(cachedCapabilities[feature]) THEN Return(Undefined)
    ELSE Throw(UnsupportedMessage(feature))

\* a POST handed to fetch: the method that sent it and the path under the endpoint
Post(op, path, body) == [op |-> op, path |-> path, body |-> body]

\* the payload of a gated method goes out as given; its contents are not looked at
GivenPayload == <<>>

Request(op, path) == Post(op, path, GivenPayload)

RemoveAt(seq, i) == [j \in 1..(Len(seq) - 1) |-> IF j < i THEN seq[j] ELSE seq[j + 1]]

NoResponse == Http(0, "", <<>>)

\* the record kept of the latest step: the promise's state and what it carries
\* (overlapped: two getTileUrl calls have been in flight together since the
\* client last had none in flight)
Event(kind, op, sent, state, url, data, message, resp) ==
    [kind |-> kind, op |-> op, sent |-> sent, state |-> state, url |-> url,
     data |-> data, message |-> message, resp |-> resp,
     before |-> cachedCapabilities,
     overlapped |->
        LET tiles == {k \in 1..Len(inflight) : inflight[k].op = "getTileUrl"}
        IN  Cardinality(tiles) >= 2 \/ (tiles # {} /\ last.overlapped)]

ClientIdle ==
    /\ cachedCapabilities = CapsPrim(Null)
    /\ inflight = <<>>
    /\ last = [kind |-> "none", op |-> "none", sent |-> FALSE, state |-> "none",
               url |-> Undefined, data |-> EmptyBody, message |-> <<>>,
               resp |-> NoResponse, before |-> CapsPrim(Null), overlapped |-> FALSE]

\* capabilities: () => cachedCapabilities ?? {}
capabilities ==
    /\ last' = Event("capabilities", "capabilities", FALSE, "returned", Undefined,
                     [EmptyBody EXCEPT !.capabilities =
                         IF cachedCapabilities.raw \in {Null, Undefined}
                         THEN CapsObj(Undefined, Undefined, Undefined)
                         ELSE cachedCapabilities],
                     <<>>, NoResponse)
    /\ UNCHANGED <<cachedCapabilities, inflight>>

\* the fields of TileEndpointPayload and the key each one is sent under
PayloadFields == {"assetId", "script", "visParams", "dateRange", "cloudFilter", "reducer"}

WireKey(field) ==
    CASE field = "assetId" -> "asset_id"
      [] field = "script" -> "script"
      [] field = "visParams" -> "vis_params"
      [] field = "dateRange" -> "date_range"
      [] field = "cloudFilter" -> "cloud_filter"
      [] field = "reducer" -> "reducer"

FieldOfWireKey(key) == CHOOSE field \in PayloadFields : WireKey(field) = key

\* an object value, told apart by a name for its contents
ObjOf(name) == [t |-> "object", v |-> name]

NoPayload == [field \in PayloadFields |-> Undefined]

\* toApiPayload copying every field that is not undefined
toApiPayloadDefined(payload) ==
    [key \in {WireKey(field) : field \in {f \in PayloadFields : payload[f] # Undefined}}
        |-> payload[FieldOfWireKey(key)]]

\* the object toApiPayload builds: a key for each field that is truthy
toApiPayload(payload) ==
    [key \in {WireKey(field) : field \in {f \in PayloadFields : Truthy(payload[f])}}
        |-> payload[FieldOfWireKey(key)]]

\* getTileUrl up to the await of postJson: the request goes out
getTileUrl(payload) ==
    /\ Len(inflight) < MaxInFlight
    /\ inflight' = Append(inflight, Post("getTileUrl", "", toApiPayload(payload)))
    /\ last' = Event("call", "getTileUrl", TRUE, "pending", Undefined, EmptyBody, <<>>, NoResponse)
    /\ UNCHANGED cachedCapabilities

\* getTileUrlResume with a staleness check: the response of a call is not
\* cached while a getTileUrl call started after it is still in flight
getTileUrlResumeUnlessStale(i, resp) ==
    /\ i \in 1..Len(inflight)
    /\ inflight[i].op = "getTileUrl"
    /\ inflight' = RemoveAt(inflight, i)
    /\ LET posted == postJson(resp)
       IN  IF posted.threw
           THEN /\ last' = Event("settle", "getTileUrl", FALSE, "rejected", Undefined,
                                 EmptyBody, posted.message, resp)
                /\ UNCHANGED cachedCapabilities
           ELSE LET data == posted.value
                    parsed == parseTileUrlFromResponse(data)
                IN  /\ cachedCapabilities' =
                          IF \E k \in (i + 1)..Len(inflight) : inflight[k].op = "getTileUrl"
                          THEN cachedCapabilities
                          ELSE parseCapabilities(data)
                    /\ last' = IF parsed.threw
                               THEN Event("settle", "getTileUrl", FALSE, "rejected", Undefined,
                                          EmptyBody, parsed.message, resp)
                               ELSE Event("settle", "getTileUrl", FALSE, "fulfilled", parsed.value,
                                          EmptyBody, <<>>, resp)

\* getTileUrl from the point where postJson settles
getTileUrlResume(i, resp) ==
    /\ i \in 1..Len(inflight)
    /\ inflight[i].op = "getTileUrl"
    /\ inflight' = RemoveAt(inflight, i)
    /\ LET posted == postJson(resp)
       IN  IF posted.threw
           THEN /\ last' = Event("settle", "getTileUrl", FALSE, "rejected", Undefined,
                                 EmptyBody, posted.message, resp)
                /\ UNCHANGED cachedCapabilities
           ELSE LET data == posted.value
                    parsed == parseTileUrlFromResponse(data)
                IN  /\ cachedCapabilities' = parseCapabilities(data)
                    /\ last' = IF parsed.threw
                               THEN Event("settle", "getTileUrl", FALSE, "rejected", Undefined,
                                          EmptyBody, parsed.message, resp)
                               ELSE Event("settle", "getTileUrl", FALSE, "fulfilled", parsed.value,
                                          EmptyBody, <<>>, resp)

\* a gated method up to the await of postJson: ensureSupported, then the request
FeatureCall(op, feature, path) ==
    LET gate == ensureSupported(feature)
    IN  IF gate.threw
        THEN /\ last' = Event("call", op, FALSE, "rejected", Undefined, EmptyBody,
                              gate.message, NoResponse)
             /\ UNCHANGED <<cachedCapabilities, inflight>>
        ELSE /\ Len(inflight) < MaxInFlight
             /\ inflight' = Append(inflight, Request(op, path))
             /\ last' = Event("call", op, TRUE, "pending", Undefined, EmptyBody, <<>>, NoResponse)
             /\ UNCHANGED cachedCapabilities

\* FeatureResume refreshing the capability cache from the body it returns
FeatureResumeRefreshing(op, i, resp) ==
    /\ i \in 1..Len(inflight)
    /\ inflight[i].op = op
    /\ inflight' = RemoveAt(inflight, i)
    /\ LET posted == postJson(resp)
       IN  IF posted.threw
           THEN /\ last' = Event("settle", op, FALSE, "rejected", Undefined, EmptyBody,
                                 posted.message, resp)
                /\ UNCHANGED cachedCapabilities
           ELSE /\ last' = Event("settle", op, FALSE, "fulfilled", Undefined, posted.value,
                                 <<>>, resp)
                /\ cachedCapabilities' = parseCapabilities(posted.value)

\* a gated method from the point where postJson settles: the body is returned as is
FeatureResume(op, i, resp) ==
    /\ i \in 1..Len(inflight)
    /\ inflight[i].op = op
    /\ inflight' = RemoveAt(inflight, i)
    /\ LET posted == postJson(resp)
       IN  last' = IF posted.threw
                   THEN Event("settle", op, FALSE, "rejected", Undefined, EmptyBody,
                              posted.message, resp)
                   ELSE Event("settle", op, FALSE, "fulfilled", Undefined, posted.value,
                              <<>>, resp)
    /\ UNCHANGED cachedCapabilities

inspectPixel == FeatureCall("inspectPixel", "inspect", "/inspect")
inspectPixelResume(i, resp) == FeatureResume("inspectPixel", i, resp)

requestExport == FeatureCall("requestExport", "export", "/export")
requestExportResume(i, resp) == FeatureResume("requestExport", i, resp)

requestTimeSeries == FeatureCall("requestTimeSeries", "timeSeries", "/timeseries")
requestTimeSeriesResume(i, resp) == FeatureResume("requestTimeSeries", i, resp)

----------------------------------------------------------------------------
(* The responses an endpoint may give. *)

TileUrlParts ==
    {[tileUrl |-> Undefined], [tileUrl |-> Str("https://tiles/{z}/{x}/{y}")]}

CapabilityParts ==
    {CapsPrim(Undefined), CapsPrim(Null), CapsPrim(True),
     CapsObj(True, True, True), CapsObj(True, False, False), CapsObj(False, True, False),
     CapsObj(False, False, True), CapsObj(False, False, False),
     CapsObj(True, Undefined, Undefined), CapsObj(Str("yes"), Num("0"), Undefined)}

ClientBodies ==
    {[EmptyBody EXCEPT !.tileUrl = u.tileUrl, !.capabilities = c] :
        u \in TileUrlParts, c \in CapabilityParts}

AdvertisingBody ==
    [EmptyBody EXCEPT !.tileUrl = Str("https://tiles/{z}/{x}/{y}"),
                      !.capabilities = CapsObj(True, True, True)]

Responses ==
    {Http(200, "{json}", <<b>>) : b \in ClientBodies}
    \cup {Http(200, "<html>", <<>>),
          Http(404, "Not Found", <<>>),
          Http(500, "", <<>>),
          Http(503, "{json}", <<AdvertisingBody>>),
          NetworkError}

\* parseTileUrlFromResponse is not being run on its own
ParseIdle ==
    /\ parseData = EmptyBody
    /\ parseResult = Return(Undefined)
    /\ parsePc = "idle"

\* no endpoint string is being normalized
UrlIdle ==
    /\ urlIn = <<>>
    /\ urlOut = <<>>
    /\ urlAgain = <<>>
    /\ created = Return(Undefined)
    /\ urlPc = "idle"

\* no tile payload is being looked at on its own
PayloadIdle == payloadIn = NoPayload

\* the catalog is not being queried
CatalogIdle ==
    /\ catItems = <<>>
    /\ catQuery = <<>>
    /\ catFiltered = <<>>
    /\ catResult = <<>>
    /\ catPc = "idle"

\* the catalog feeds are not being fetched
FetchIdle ==
    /\ fetchFeeds = <<>>
    /\ fetchHeaders = <<>>
    /\ fetchBodies = <<>>
    /\ fetchResult = <<>>
    /\ fetchPc = "idle"

\* no Earth Engine layer is on the map and none is being rendered
LayerIdle ==
    /\ mapSources = <<>>
    /\ mapLayers = <<>>
    /\ mapOps = <<>>
    /\ renders = <<>>
    /\ layerDone = [state |-> "none", url |-> ""]

\* nothing else of the plugin is running
\* no handler of the control has run
NoUi ==
    [op |-> "none", index |-> 0, frames |-> 0, sent |-> FALSE,
     report |-> <<>>, replaced |-> CapsPrim(Null), unchanged |-> FALSE]

SettingsIdle ==
    /\ tileEndpoint = <<>>
    /\ tileEndpointToken = <<>>
    /\ endpointClient = "none"

PanelIdle ==
    /\ attached = FALSE
    /\ inspectorActive = FALSE
    /\ mapClickHandler = FALSE
    /\ clickHandlers = 0
    /\ tsFrames = <<>>
    /\ tsIndex = 0
    /\ tsButtons = 0
    /\ tsLoads = <<>>

ControlIdle == SettingsIdle /\ PanelIdle /\ ui = NoUi

LaterIdle == FetchIdle /\ LayerIdle /\ ControlIdle

\* the payloads PluginControl hands to getTileUrl: loadAsset, runScript, a time-series frame
TilePayloads ==
    {[NoPayload EXCEPT !.assetId = Str("USGS/SRTMGL1_003"), !.visParams = ObjOf("vis")],
     [NoPayload EXCEPT !.script = Str("return ee.Image(1)"), !.visParams = ObjOf("vis")],
     [NoPayload EXCEPT !.assetId = Str("USGS/SRTMGL1_003"), !.dateRange = ObjOf("range"),
                       !.reducer = Str("median")]}

Init ==
    /\ ClientIdle
    /\ ParseIdle
    /\ UrlIdle
    /\ PayloadIdle
    /\ CatalogIdle
    /\ LaterIdle

Next ==
    \/ capabilities /\ UNCHANGED <<parseVars, urlVars, payloadVars, catalogVars, laterVars>>
    \/ \E payload \in TilePayloads :
          getTileUrl(payload) /\ UNCHANGED <<parseVars, urlVars, payloadVars, catalogVars, laterVars>>
    \/ inspectPixel /\ UNCHANGED <<parseVars, urlVars, payloadVars, catalogVars, laterVars>>
    \/ requestExport /\ UNCHANGED <<parseVars, urlVars, payloadVars, catalogVars, laterVars>>
    \/ requestTimeSeries /\ UNCHANGED <<parseVars, urlVars, payloadVars, catalogVars, laterVars>>
    \/ \E i \in 1..MaxInFlight, resp \in Responses :
          getTileUrlResume(i, resp) /\ UNCHANGED <<parseVars, urlVars, payloadVars, catalogVars, laterVars>>
    \/ \E i \in 1..MaxInFlight, resp \in Responses :
          inspectPixelResume(i, resp) /\ UNCHANGED <<parseVars, urlVars, payloadVars, catalogVars, laterVars>>
    \/ \E i \in 1..MaxInFlight, resp \in Responses :
          requestExportResume(i, resp) /\ UNCHANGED <<parseVars, urlVars, payloadVars, catalogVars, laterVars>>
    \/ \E i \in 1..MaxInFlight, resp \in Responses :
          requestTimeSeriesResume(i, resp) /\ UNCHANGED <<parseVars, urlVars, payloadVars, catalogVars, laterVars>>

Spec == Init /\ [][Next]_vars

----------------------------------------------------------------------------
(* parseTileUrlFromResponse applied to every body of a bounded family. *)

\* what one scalar field of the body may hold; name makes the strings distinct
FieldValues(name) == {Undefined, Null, Num("1"), Str(""), Str(name)}

TilesValues ==
    {NotArray(Undefined), NotArray(Str("tiles")), Array(<<>>)}
    \cup {Array(<<p>>) : p \in {Num("1"), Str(""), Str("tiles[0]")}}
    \cup {Array(<<Str("tiles[0]"), Str("tiles[1]")>>), Array(<<Undefined, Str("tiles[1]")>>)}

NestedValues(name) == {Undefined, Num("1"), Str(""), Str(name)}

DataValues ==
    {DataPrim(Undefined), DataPrim(Null), DataPrim(Str("data")), DataPrim(Num("0"))}
    \cup {DataObj(u, f) : u \in NestedValues("data.tileUrl"), f \in NestedValues("data.urlFormat")}

ParseInputs ==
    {[tile_url |-> a, tileUrl |-> b, urlFormat |-> c, tiles |-> d, data |-> e,
      capabilities |-> CapsPrim(Undefined)] :
        a \in FieldValues("tile_url"), b \in FieldValues("tileUrl"),
        c \in NestedValues("urlFormat"), d \in TilesValues, e \in DataValues}

InitParse ==
    /\ parseData \in ParseInputs
    /\ parseResult = Return(Undefined)
    /\ parsePc = "start"
    /\ ClientIdle
    /\ UrlIdle
    /\ PayloadIdle
    /\ CatalogIdle
    /\ LaterIdle

ParseTileUrl ==
    /\ parsePc = "start"
    /\ parseResult' = parseTileUrlFromResponse(parseData)
    /\ parsePc' = "done"
    /\ UNCHANGED <<parseData, clientVars, urlVars, payloadVars, catalogVars, laterVars>>

NextParse == ParseTileUrl

SpecParse == InitParse /\ [][NextParse]_vars

----------------------------------------------------------------------------
(* Vocabulary of the properties. *)

FeatureOps == {"inspectPixel", "requestExport", "requestTimeSeries"}

FeatureOf(op) ==
    CASE op = "inspectPixel" -> "inspect"
      [] op = "requestExport" -> "export"
      [] op = "requestTimeSeries" -> "timeSeries"

PathOf(op) ==
    CASE op = "inspectPixel" -> "/inspect"
      [] op = "requestExport" -> "/export"
      [] op = "requestTimeSeries" -> "/timeseries"

Range(seq) == {seq[k] : k \in 1..Len(seq)}

\* the capability state is unknown / a snapshot is held
Unknown(caps) == caps = CapsPrim(Null)
Known(caps) == caps.raw = Obj

\* the step just taken is a call of a gated method / the settling of a request
FeatureCalled == last'.kind = "call" /\ last'.op \in FeatureOps
TileSettled == last.kind = "settle" /\ last.op = "getTileUrl"
TileSucceeded == TileSettled /\ last.state = "fulfilled"

\* the response body advertises feature f
Advertised(body, f) == body.capabilities.raw = Obj /\ Truthy(body.capabilities[f])

----------------------------------------------------------------------------
(* C1: while the capability state is unknown, a call of inspectPixel,      *)
(* requestExport or requestTimeSeries is not rejected by ensureSupported:  *)
(* its request to the method's path is handed to the network.              *)
C1_UnknownCallsAreSent ==
    [][(FeatureCalled /\ Unknown(cachedCapabilities))
        => /\ last'.sent
           /\ last'.state = "pending"
           /\ inflight' = Append(inflight, Request(last'.op, PathOf(last'.op)))]_vars

C1_Witness ==
    /\ last.kind = "call"
    /\ last.op = "requestExport"
    /\ Unknown(last.before)
    /\ last.sent
    /\ inflight # <<>>
    /\ inflight[Len(inflight)] = Request("requestExport", "/export")

(* C2: once a snapshot is held, a gated call whose flag in the snapshot is *)
(* falsy is rejected locally with an error naming the feature and sends no *)
(* request; a call whose flag is true is sent.                             *)
C2_KnownCallsAreGated ==
    [][(FeatureCalled /\ Known(cachedCapabilities))
        => IF Truthy(cachedCapabilities[FeatureOf(last'.op)])
           THEN /\ last'.sent
                /\ inflight' = Append(inflight, Request(last'.op, PathOf(last'.op)))
           ELSE /\ ~last'.sent
                /\ last'.state = "rejected"
                /\ last'.message = UnsupportedMessage(FeatureOf(last'.op))
                /\ FeatureOf(last'.op) \in Range(last'.message)
                /\ inflight' = inflight]_vars

C2_Witness ==
    /\ last.kind = "call"
    /\ last.op = "inspectPixel"
    /\ last.before = CapsObj(False, True, False)
    /\ last.state = "rejected"
    /\ ~last.sent

(* C3: a getTileUrl call that fails (status not 2xx, or a 2xx body without *)
(* any recognised tile-URL field) leaves the capability state as it was.   *)
C3_FailedTileKeepsCapabilities ==
    (TileSettled /\ last.state = "rejected") => cachedCapabilities = last.before

(* C4: inspectPixel, requestExport and requestTimeSeries never modify the  *)
(* capability state, whether blocked, failed or answered, and whatever the *)
(* response body contains.                                                 *)
C4_FeatureCallsKeepCapabilities ==
    last.op \in FeatureOps => cachedCapabilities = last.before

C4_Witness ==
    /\ last.kind = "settle"
    /\ last.op = "inspectPixel"
    /\ last.state = "fulfilled"
    /\ last.data.capabilities = CapsObj(True, True, True)
    /\ Unknown(cachedCapabilities)

(* C5: a successful tile request overwrites the snapshot: afterwards a     *)
(* flag is true exactly when the response just read advertises it,         *)
(* whatever the snapshot held before.                                      *)
C5_SnapshotIsLastResponse ==
    TileSucceeded
        => /\ Known(cachedCapabilities)
           /\ \A f \in Features :
                 Truthy(cachedCapabilities[f]) <=> Advertised(last.resp.json[1], f)

C5_Witness ==
    /\ TileSucceeded
    /\ Truthy(last.before.inspect)
    /\ ~Truthy(cachedCapabilities.inspect)
    /\ ~Advertised(last.resp.json[1], "inspect")

(* C6: once a snapshot is held, no step of the client returns it to the    *)
(* unknown state.                                                          *)
C6_KnownStaysKnown ==
    [][Known(cachedCapabilities) => Known(cachedCapabilities')]_vars

C6_Witness ==
    /\ TileSucceeded
    /\ Known(last.before)
    /\ last.resp.json[1].capabilities = CapsPrim(Undefined)
    /\ Known(cachedCapabilities)

(* C7 as stated: after a successful tile request every flag the response   *)
(* does not advertise is the boolean false in the snapshot.                *)
C7_UnadvertisedIsFalse ==
    TileSucceeded
        => \A f \in Features :
              ~Advertised(last.resp.json[1], f) => cachedCapabilities[f] = False

(* C7 amended: after a successful tile request the state is known and      *)
(* every flag is true when advertised, false when the response has a       *)
(* capabilities value that does not advertise it, and absent when the      *)
(* response has no capabilities value; capabilities() returns the snapshot *)
(* unchanged.                                                              *)
C7_UnadvertisedIsFalsy ==
    /\ TileSucceeded
        => /\ Known(cachedCapabilities)
           /\ \A f \in Features :
                 cachedCapabilities[f] =
                    IF Advertised(last.resp.json[1], f) THEN True
                    ELSE IF Truthy(last.resp.json[1].capabilities.raw) THEN False
                    ELSE Undefined
    /\ (last.kind = "capabilities" /\ Known(cachedCapabilities))
        => last.data.capabilities = cachedCapabilities

C7_Witness ==
    /\ TileSucceeded
    /\ last.resp.json[1].capabilities = CapsPrim(Undefined)
    /\ cachedCapabilities = CapsObj(Undefined, Undefined, Undefined)

----------------------------------------------------------------------------
(* parseTileUrlFromResponse: the six fields in their order of precedence. *)

Candidates(data) ==
    <<data.tile_url, data.tileUrl, data.urlFormat, Item0(data.tiles),
      Prop(data.data, "tileUrl"), Prop(data.data, "urlFormat")>>

StringTyped(x) == x.t = "string"
NonEmptyString(x) == x.t = "string" /\ x.v # ""

\* positions, in the order of precedence, of the fields that are string-typed /
\* that hold a non-empty string
StringTypedAt(data) == {n \in 1..6 : StringTyped(Candidates(data)[n])}
NonEmptyAt(data) == {n \in 1..6 : NonEmptyString(Candidates(data)[n])}

\* the field at the lowest of the positions S (S is not empty)
FirstAt(data, S) == Candidates(data)[CHOOSE n \in S : \A m \in S : n <= m]

(* C8 as stated: the result is the first field, in order, that is present  *)
(* and string-typed, whatever that string is.                              *)
C8_FirstStringTypedWins ==
    (parsePc = "done" /\ StringTypedAt(parseData) # {})
        => parseResult = Return(FirstAt(parseData, StringTypedAt(parseData)))

(* C8 amended: the result is the first field, in order, that holds a       *)
(* non-empty string; an empty string is passed over like a missing field.  *)
C8_FirstNonEmptyStringWins ==
    (parsePc = "done" /\ NonEmptyAt(parseData) # {})
        => parseResult = Return(FirstAt(parseData, NonEmptyAt(parseData)))

C8_Witness ==
    /\ parsePc = "done"
    /\ parseData.tile_url = Str("")
    /\ parseData.tileUrl = Str("tileUrl")
    /\ Prop(parseData.data, "urlFormat") = Str("data.urlFormat")
    /\ parseResult = Return(Str("tileUrl"))

(* C9 as stated: the missing-field error is thrown exactly when none of    *)
(* the six fields is present with string type; otherwise a non-empty       *)
(* string is returned.                                                     *)
C9_ThrowsIffNoStringTyped ==
    parsePc = "done"
        => /\ parseResult.threw <=> StringTypedAt(parseData) = {}
           /\ ~parseResult.threw => NonEmptyString(parseResult.value)

(* C9 amended: the missing-field error is thrown exactly when none of the  *)
(* six fields holds a non-empty string; otherwise a non-empty string is    *)
(* returned.                                                               *)
C9_ThrowsIffNoNonEmptyString ==
    parsePc = "done"
        => /\ parseResult.threw <=> NonEmptyAt(parseData) = {}
           /\ parseResult.threw => parseResult.message = MissingFieldMessage
           /\ ~parseResult.threw => NonEmptyString(parseResult.value)

C9_Witness ==
    /\ parsePc = "done"
    /\ parseData.tile_url = Str("")
    /\ NonEmptyAt(parseData) = {}
    /\ parseResult = Throw(MissingFieldMessage)

----------------------------------------------------------------------------
(* C10: for each of the four operations a response whose status is not 2xx *)
(* rejects the call with an error holding the status code and the body     *)
(* text ('Unknown error' for an empty body); the body is not used as a     *)
(* result.                                                                 *)
C10_Non2xxIsFatal ==
    (last.kind = "settle" /\ last.resp.kind = "http" /\ last.resp.status \notin 200..299)
        => /\ last.state = "rejected"
           /\ ToString(last.resp.status) \in Range(last.message)
           /\ (IF last.resp.text = "" THEN "Unknown error" ELSE last.resp.text)
                 \in Range(last.message)
           /\ last.message[1] = "Endpoint error ("
           /\ last.url = Undefined
           /\ last.data = EmptyBody
           /\ cachedCapabilities = last.before

C10_Witness ==
    /\ last.kind = "settle"
    /\ last.op = "getTileUrl"
    /\ last.resp = Http(503, "{json}", <<AdvertisingBody>>)
    /\ last.state = "rejected"
    /\ "503" \in Range(last.message)

----------------------------------------------------------------------------
(* Strings whose text matters are sequences of one-character strings. *)

Uppers == <<"A", "B", "C", "D", "E", "F", "G", "H", "I", "J", "K", "L", "M",
            "N", "O", "P", "Q", "R", "S", "T", "U", "V", "W", "X", "Y", "Z">>
Lowers == <<"a", "b", "c", "d", "e", "f", "g", "h", "i", "j", "k", "l", "m",
            "n", "o", "p", "q", "r", "s", "t", "u", "v", "w", "x", "y", "z">>

\* the characters String.prototype.trim removes (those that occur in the inputs)
Whitespace == {" ", "\t", "\n"}

LowerChar(c) ==
    IF \E k \in 1..26 : Uppers[k] = c
    THEN Lowers[CHOOSE k \in 1..26 : Uppers[k] = c]
    ELSE c

\* s.toLowerCase()
ToLowerCase(s) == [k \in 1..Len(s) |-> LowerChar(s[k])]

\* s.trim()
Trim(s) ==
    LET keep == {k \in 1..Len(s) : s[k] \notin Whitespace}
    IN  IF keep = {} THEN <<>>
        ELSE SubSeq(s, CHOOSE k \in keep : \A m \in keep : k <= m,
                       CHOOSE k \in keep : \A m \in keep : m <= k)

----------------------------------------------------------------------------
(* normalizeEndpointUrl and createEndpointClient. *)

\* https://huggingface.co/spaces/
SpacesPrefix ==
    <<"h", "t", "t", "p", "s", ":", "/", "/", "h", "u", "g", "g", "i", "n", "g",
      "f", "a", "c", "e", ".", "c", "o", "/", "s", "p", "a", "c", "e", "s", "/">>

\* https://
HttpsScheme == <<"h", "t", "t", "p", "s", ":", "/", "/">>

\* .hf.space/tile
HfSpaceTile == <<".", "h", "f", ".", "s", "p", "a", "c", "e", "/", "t", "i", "l", "e">>

\* the length of the longest prefix of s without a slash: what [^/]+ consumes
SlashFreeRun(s) ==
    LET slashes == {k \in 1..Len(s) : s[k] = "/"}
    IN  IF slashes = {} THEN Len(s)
        ELSE (CHOOSE k \in slashes : \A m \in slashes : k <= m) - 1

NoMatch == [matched |-> FALSE, owner |-> <<>>, space |-> <<>>]

\* raw.match(/^https:\/\/huggingface\.co\/spaces\/([^/]+)\/([^/]+)\/?$/i)
MatchSpaceUrl(raw) ==
    LET n == Len(SpacesPrefix)
    IN  IF Len(raw) < n \/ ToLowerCase(SubSeq(raw, 1, n)) # SpacesPrefix THEN NoMatch
        ELSE LET rest == SubSeq(raw, n + 1, Len(raw))
                 o == SlashFreeRun(rest)
             IN  IF o = 0 \/ o = Len(rest) THEN NoMatch
                 ELSE LET tail == SubSeq(rest, o + 2, Len(rest))
                          sp == SlashFreeRun(tail)
                          after == SubSeq(tail, sp + 1, Len(tail))
                      IN  IF sp = 0 \/ after \notin {<<>>, <<"/">>} THEN NoMatch
                          ELSE [matched |-> TRUE, owner |-> SubSeq(rest, 1, o),
                                space |-> SubSeq(tail, 1, sp)]

\* normalizeEndpointUrl keeping the rewritten address on the hosting service
normalizeEndpointUrlSameHost(endpoint) ==
    LET raw == Trim(endpoint)
        m == MatchSpaceUrl(raw)
    IN  IF raw = <<>> THEN raw
        ELSE IF m.matched
             THEN SpacesPrefix \o m.owner \o <<"-">> \o m.space \o <<"/", "t", "i", "l", "e">>
             ELSE raw

\* normalizeEndpointUrl with a case-sensitive pattern
normalizeEndpointUrlCaseSensitive(endpoint) ==
    LET raw == Trim(endpoint)
        m == MatchSpaceUrl(raw)
    IN  IF raw = <<>> THEN raw
        ELSE IF m.matched /\ SubSeq(raw, 1, Len(SpacesPrefix)) = SpacesPrefix
             THEN HttpsScheme \o m.owner \o <<"-">> \o m.space \o HfSpaceTile
             ELSE raw

normalizeEndpointUrl(endpoint) ==
    LET raw == Trim(endpoint)
        m == MatchSpaceUrl(raw)
    IN  IF raw = <<>> THEN raw
        ELSE IF m.matched
             THEN HttpsScheme \o m.owner \o <<"-">> \o m.space \o HfSpaceTile
             ELSE raw

HeaderValue(key, token) ==
    IF key = "Content-Type" THEN "application/json" ELSE "Bearer " \o token.v

buildHeaders(token) ==
    [key \in (IF Truthy(token) THEN {"Content-Type", "Authorization"} ELSE {"Content-Type"})
        |-> HeaderValue(key, token)]

NotConfiguredMessage == <<"Tile endpoint is not configured.">>

\* the closure createEndpointClient builds before returning its methods
Client(endpoint, headers) ==
    [endpoint |-> endpoint, headers |-> headers, cachedCapabilities |-> CapsPrim(Null)]

\* createEndpointClient testing the endpoint as given, before normalizing it
createEndpointClientRawCheck(options) ==
    IF options.endpoint = <<>> THEN Throw(NotConfiguredMessage)
    ELSE Return(Client(normalizeEndpointUrl(options.endpoint), buildHeaders(options.token)))

createEndpointClient(options) ==
    LET endpoint == normalizeEndpointUrl(options.endpoint)
    IN  IF endpoint = <<>> THEN Throw(NotConfiguredMessage)
        ELSE Return(Client(endpoint, buildHeaders(options.token)))

----------------------------------------------------------------------------
(* normalizeEndpointUrl and createEndpointClient applied to a family of    *)
(* endpoint strings.                                                       *)

\* HTTPS://HuggingFace.co/Spaces/
SpacesPrefixMixedCase ==
    <<"H", "T", "T", "P", "S", ":", "/", "/", "H", "u", "g", "g", "i", "n", "g",
      "F", "a", "c", "e", ".", "c", "o", "/", "S", "p", "a", "c", "e", "s", "/">>

\* what may follow the prefix of a space address
SpacePaths ==
    {<<"a", "/", "b">>, <<"a", "/", "b", "/">>, <<"a", "/", "b", "/", "/">>,
     <<"a">>, <<"a", "/">>, <<"/", "b">>, <<"a", "/", "b", "/", "c">>,
     <<"A", " ", "/", "b", " ", "/">>, <<>>}

UrlCores ==
    {<<>>, <<"x">>, <<"a", " ", "b">>,
     HttpsScheme \o <<"a", "-", "b">> \o HfSpaceTile,
     HttpsScheme \o <<"e", ".", "c", "o", "/", "t", "/">>,
     <<"x">> \o SpacesPrefix \o <<"a", "/", "b">>,
     <<"h", "t", "t", "p", ":", "/", "/">> \o SubSeq(SpacesPrefix, 9, 30) \o <<"a", "/", "b">>}
    \cup {SpacesPrefix \o path : path \in SpacePaths}
    \cup {SpacesPrefixMixedCase \o path : path \in {<<"a", "/", "b">>, <<"a">>}}

Pads == {<<>>, <<" ">>, <<"\n", "\t">>}

UrlInputs == {pre \o core \o post : pre \in Pads, core \in UrlCores, post \in Pads}

Tokens == {Undefined, Str(""), Str("secret")}

InitUrl ==
    /\ urlIn \in UrlInputs
    /\ urlOut = <<>>
    /\ urlAgain = <<>>
    /\ created = Return(Undefined)
    /\ urlPc = "start"
    /\ ClientIdle
    /\ ParseIdle
    /\ PayloadIdle
    /\ CatalogIdle
    /\ LaterIdle

NormalizeEndpointUrl ==
    /\ urlPc = "start"
    /\ urlOut' = normalizeEndpointUrl(urlIn)
    /\ urlPc' = "normalized"
    /\ UNCHANGED <<urlIn, urlAgain, created, clientVars, parseVars, payloadVars, catalogVars, laterVars>>

NormalizeAgain ==
    /\ urlPc = "normalized"
    /\ urlAgain' = normalizeEndpointUrl(urlOut)
    /\ urlPc' = "renormalized"
    /\ UNCHANGED <<urlIn, urlOut, created, clientVars, parseVars, payloadVars, catalogVars, laterVars>>

CreateEndpointClient(token) ==
    /\ urlPc = "start"
    /\ created' = createEndpointClient([endpoint |-> urlIn, token |-> token])
    /\ urlPc' = "created"
    /\ UNCHANGED <<urlIn, urlOut, urlAgain, clientVars, parseVars, payloadVars, catalogVars, laterVars>>

NextUrl ==
    \/ NormalizeEndpointUrl
    \/ NormalizeAgain
    \/ \E token \in Tokens : CreateEndpointClient(token)

SpecUrl == InitUrl /\ [][NextUrl]_vars

\* s is empty or holds whitespace only
Blank(s) == \A k \in 1..Len(s) : s[k] \in Whitespace

(* C11: createEndpointClient throws for an endpoint string that is empty   *)
(* or whitespace-only: no client, header set or capability cache comes to  *)
(* exist and nothing is sent.                                              *)
C11_BlankEndpointRefused ==
    (urlPc = "created" /\ Blank(urlIn))
        => /\ created = Throw(NotConfiguredMessage)
           /\ inflight = <<>>

C11_Witness ==
    /\ urlPc = "created"
    /\ urlIn = <<" ">>
    /\ created.threw

(* C12: normalizeEndpointUrl is idempotent: normalizing its own result     *)
(* gives that result again.                                                *)
C12_NormalizeIdempotent ==
    urlPc = "renormalized" => urlAgain = urlOut

C12_Witness ==
    /\ urlPc = "renormalized"
    /\ urlIn = <<" ">> \o SpacesPrefix \o <<"a", "/", "b", "/">> \o <<"\n", "\t">>
    /\ urlOut = HttpsScheme \o <<"a", "-", "b">> \o HfSpaceTile
    /\ urlAgain = urlOut

\* s has no slash and is not empty
Segment(s) == s # <<>> /\ \A k \in 1..Len(s) : s[k] # "/"

\* raw is prefix, owner, "/", space and at most one closing slash
SpaceForm(raw, prefix, owner, space) ==
    /\ Segment(owner)
    /\ Segment(space)
    /\ raw \in {prefix \o owner \o <<"/">> \o space,
                prefix \o owner \o <<"/">> \o space \o <<"/">>}

\* the ways of reading raw as a space address under a given prefix
SpaceReadings(raw, prefix) ==
    {r \in {[owner |-> SubSeq(raw, i, j), space |-> SubSeq(raw, j + 2, k)] :
                i \in {Len(prefix) + 1}, j \in 1..Len(raw), k \in 1..Len(raw)} :
        SpaceForm(raw, prefix, r.owner, r.space)}

Rewritten(r) == HttpsScheme \o r.owner \o <<"-">> \o r.space \o HfSpaceTile

(* C13 as stated: the trimmed input is rewritten when it reads             *)
(* https://huggingface.co/spaces/<owner>/<space> (optional closing slash), *)
(* and every other string comes back as the trimmed input.                 *)
C13_RewritesExactForm ==
    urlPc = "normalized"
        => LET raw == Trim(urlIn)
               readings == SpaceReadings(raw, SpacesPrefix)
           IN  IF readings # {}
               THEN \E r \in readings : urlOut = Rewritten(r)
               ELSE urlOut = raw

(* C13 amended: as above, the fixed part https://huggingface.co/spaces/    *)
(* being recognised in any letter case; owner and space keep their case.   *)
C13_RewritesFormAnyCase ==
    urlPc = "normalized"
        => LET raw == Trim(urlIn)
               n == Len(SpacesPrefix)
               prefix == IF Len(raw) >= n THEN SubSeq(raw, 1, n) ELSE <<>>
               readings == IF ToLowerCase(prefix) = SpacesPrefix
                           THEN SpaceReadings(raw, prefix) ELSE {}
           IN  IF readings # {}
               THEN \E r \in readings : urlOut = Rewritten(r)
               ELSE urlOut = raw

C13_Witness ==
    /\ urlPc = "normalized"
    /\ urlIn = <<" ">> \o SpacesPrefixMixedCase \o <<"a", "/", "b">>
    /\ urlOut = HttpsScheme \o <<"a", "-", "b">> \o HfSpaceTile

----------------------------------------------------------------------------
(* The request getTileUrl sends, for a family of tile payloads. *)

\* a string field: missing, empty or set; an object field: missing, null or set
PayloadValues(field) ==
    IF field \in {"assetId", "script", "reducer"}
    THEN {Undefined, Str(""), Str(field)}
    ELSE {Undefined, Null, ObjOf(field)}

PayloadInputs == {p \in [PayloadFields -> {Undefined, Null, Str("")}
                             \cup {Str(f) : f \in PayloadFields}
                             \cup {ObjOf(f) : f \in PayloadFields}] :
                     \A f \in PayloadFields : p[f] \in PayloadValues(f)}

InitPayload ==
    /\ payloadIn \in PayloadInputs
    /\ ClientIdle
    /\ ParseIdle
    /\ UrlIdle
    /\ CatalogIdle
    /\ LaterIdle

\* getTileUrl(payloadIn) on the fresh client
SendTilePayload ==
    /\ inflight = <<>>
    /\ getTileUrl(payloadIn)
    /\ UNCHANGED <<payloadIn, parseVars, urlVars, catalogVars, laterVars>>

NextPayload == SendTilePayload

SpecPayload == InitPayload /\ [][NextPayload]_vars

\* the tile request for payloadIn has gone out; its JSON body
TileSent == Len(inflight) = 1 /\ inflight[1].op = "getTileUrl" /\ inflight[1].path = ""
SentBody == inflight[1].body

(* C14 as stated: the body holds exactly the wire keys of the payload      *)
(* fields that are present, each with the field's value; no null and no    *)
(* camelCase key.                                                          *)
C14_KeysOfPresentFields ==
    TileSent
        => /\ DOMAIN SentBody = {WireKey(f) : f \in {g \in PayloadFields : payloadIn[g] # Undefined}}
           /\ \A key \in DOMAIN SentBody : SentBody[key] # Null

(* C14 amended: the body holds exactly the wire keys of the payload fields *)
(* whose value is truthy (a non-empty string, an object), each with the    *)
(* field's value; a field that is missing, null or the empty string has no *)
(* key, and no null and no camelCase key is sent.                          *)
C14_KeysOfTruthyFields ==
    TileSent
        => /\ DOMAIN SentBody = {WireKey(f) : f \in {g \in PayloadFields : Truthy(payloadIn[g])}}
           /\ \A f \in PayloadFields :
                 Truthy(payloadIn[f]) => SentBody[WireKey(f)] = payloadIn[f]
           /\ \A key \in DOMAIN SentBody : SentBody[key] \notin {Null, Undefined}
           /\ DOMAIN SentBody \cap {"assetId", "visParams", "dateRange", "cloudFilter"} = {}

C14_Witness ==
    /\ TileSent
    /\ payloadIn = [NoPayload EXCEPT !.assetId = Str(""), !.visParams = ObjOf("visParams"),
                                     !.dateRange = Null, !.reducer = Str("reducer")]
    /\ DOMAIN SentBody = {"vis_params", "reducer"}

(* C15: as the README's endpoint contract has it, the base tile request    *)
(* carries the asset under the key assetId and the visualization           *)
(* parameters under the key visParams.                                     *)
C15_ReadmeKeys ==
    TileSent
        => /\ Truthy(payloadIn.assetId) => "assetId" \in DOMAIN SentBody
           /\ Truthy(payloadIn.visParams) => "visParams" \in DOMAIN SentBody

----------------------------------------------------------------------------
(* Catalog query engine (src/lib/ee/catalog.ts): filterCatalog and         *)
(* queryCatalog over CatalogItem records.  Texts are character sequences;  *)
(* an optional field is <<>> when missing and <<text>> when set.           *)

MaxItems == 3
DefaultLimit == 25
DefaultPage == 1

\* UTF-16 code unit of a character: "A" is 65, "a" is 97; the sort keys of the
\* inputs hold letters only, and a blank (32) stands for any other character
CodeOfUpperA == 65
CodeOfLowerA == 97
CodeOfBlank == 32
Code(c) ==
    IF \E k \in 1..26 : Uppers[k] = c
    THEN CodeOfUpperA - 1 + (CHOOSE k \in 1..26 : Uppers[k] = c)
    ELSE IF \E k \in 1..26 : Lowers[k] = c
    THEN CodeOfLowerA - 1 + (CHOOSE k \in 1..26 : Lowers[k] = c)
    ELSE CodeOfBlank

\* a < b on strings: by code units, a proper prefix coming first
StrLess(a, b) ==
    \E k \in 1..(Len(b)) :
        /\ \A m \in 1..(k - 1) : m <= Len(a) /\ a[m] = b[m]
        /\ k - 1 <= Len(a)
        /\ (k > Len(a) \/ Code(a[k]) < Code(b[k]))

\* s.includes(q)
Includes(s, q) == \E k \in 0..(Len(s) - Len(q)) : SubSeq(s, k + 1, k + Len(q)) = q

\* opt ?? ''
OrEmpty(opt) == IF opt = <<>> THEN <<>> ELSE opt[1]

\* opt ?? dflt
OrDefault(opt, dflt) == IF opt = <<>> THEN dflt ELSE opt[1]

\* items.filter(...): the members at the positions kept, in their order
KeepAt(items, kept) ==
    LET upTo[k \in 0..Len(items)] ==
            IF k = 0 THEN <<>>
            ELSE IF k \in kept THEN Append(upTo[k - 1], items[k]) ELSE upTo[k - 1]
    IN  upTo[Len(items)]

\* the callback of filterCatalog, q being the trimmed lower-cased keyword
ItemMatches(item, q) ==
    \/ Includes(ToLowerCase(item.id), q)
    \/ Includes(ToLowerCase(item.title), q)
    \/ Includes(ToLowerCase(OrEmpty(item.provider)), q)
    \/ Includes(ToLowerCase(OrEmpty(item.type)), q)
    \/ Includes(ToLowerCase(OrEmpty(item.snippet)), q)
    \/ \E t \in 1..Len(item.tags) : Includes(ToLowerCase(item.tags[t]), q)

\* filterCatalog matching the keyword as typed, blanks around it included
filterCatalogUntrimmed(items, query) ==
    LET q == ToLowerCase(query)
    IN  IF q = <<>> THEN items
        ELSE KeepAt(items, {k \in 1..Len(items) : ItemMatches(items[k], q)})

filterCatalog(items, query) ==
    LET q == ToLowerCase(Trim(query))
    IN  IF q = <<>> THEN items
        ELSE KeepAt(items, {k \in 1..Len(items) : ItemMatches(items[k], q)})

All == <<"a", "l", "l">>

\* queryCatalog up to the sort: keyword, source and type filters
QueryFiltered(items, query) ==
    LET source == OrDefault(query.source, "all")
        type == ToLowerCase(OrDefault(query.type, All))
        byKeyword == filterCatalog(items, OrEmpty(query.keyword))
        bySource == IF source # "all"
                    THEN KeepAt(byKeyword, {k \in 1..Len(byKeyword) : byKeyword[k].source = source})
                    ELSE byKeyword
    IN  IF type # All
        THEN KeepAt(bySource,
                    {k \in 1..Len(bySource) : ToLowerCase(OrEmpty(bySource[k].type)) = type})
        ELSE bySource

\* the comparator without toLowerCase
CompareCaseSensitive(a, b, sortBy, sortDir) ==
    LET left == IF sortBy = "id" THEN a.id ELSE a.title
        right == IF sortBy = "id" THEN b.id ELSE b.title
        cmp == IF StrLess(left, right) THEN -1 ELSE 1
    IN  IF left = right THEN 0
        ELSE IF sortDir = "asc" THEN cmp ELSE -cmp

\* the comparator handed to sort
Compare(a, b, sortBy, sortDir) ==
    LET left == ToLowerCase(IF sortBy = "id" THEN a.id ELSE a.title)
        right == ToLowerCase(IF sortBy = "id" THEN b.id ELSE b.title)
        cmp == IF StrLess(left, right) THEN -1 ELSE 1
    IN  IF left = right THEN 0
        ELSE IF sortDir = "asc" THEN cmp ELSE -cmp

\* x put into the sorted sequence behind every member that does not come after it
InsertSorted(sorted, x, sortBy, sortDir) ==
    LET before == Cardinality({k \in 1..Len(sorted) : Compare(sorted[k], x, sortBy, sortDir) <= 0})
    IN  SubSeq(sorted, 1, before) \o <<x>> \o SubSeq(sorted, before + 1, Len(sorted))

\* [...filtered].sort(comparator): Array.prototype.sort is stable
SortItems(filtered, sortBy, sortDir) ==
    LET upTo[k \in 0..Len(filtered)] ==
            IF k = 0 THEN <<>>
            ELSE InsertSorted(upTo[k - 1], filtered[k], sortBy, sortDir)
    IN  upTo[Len(filtered)]

Max2(a, b) == IF a >= b THEN a ELSE b
Min2(a, b) == IF a <= b THEN a ELSE b

\* the page size taken as given, without Math.max
QueryPageSizeUnclamped(query) == OrDefault(query.limit, DefaultLimit)

\* Math.max(1, query.limit ?? 25), Math.max(1, query.page ?? 1)
QueryPageSize(query) == Max2(1, OrDefault(query.limit, DefaultLimit))
QueryPage(query) == Max2(1, OrDefault(query.page, DefaultPage))

\* the first index of a page, counted from the page number itself
PageStartFromPage(page, pageSize) == page * pageSize

\* const start = (page - 1) * pageSize
PageStart(page, pageSize) == (page - 1) * pageSize

\* seq.slice(from, to) for from, to >= 0
Slice(seq, from, to) == SubSeq(seq, Min2(from, Len(seq)) + 1, Min2(to, Len(seq)))

\* queryCatalog counting the records of the page it returns
queryCatalogTotalOfPage(items, query) ==
    LET sorted == SortItems(QueryFiltered(items, query),
                            OrDefault(query.sortBy, "title"), OrDefault(query.sortDir, "asc"))
        pageSize == QueryPageSize(query)
        page == QueryPage(query)
        start == PageStart(page, pageSize)
    IN  [items |-> Slice(sorted, start, start + pageSize),
         total |-> Len(Slice(sorted, start, start + pageSize)),
         page |-> page,
         pageSize |-> pageSize]

queryCatalog(items, query) ==
    LET sorted == SortItems(QueryFiltered(items, query),
                            OrDefault(query.sortBy, "title"), OrDefault(query.sortDir, "asc"))
        pageSize == QueryPageSize(query)
        page == QueryPage(query)
        start == PageStart(page, pageSize)
    IN  [items |-> Slice(sorted, start, start + pageSize),
         total |-> Len(sorted),
         page |-> page,
         pageSize |-> pageSize]

----------------------------------------------------------------------------
(* filterCatalog and queryCatalog applied to families of lists and queries. *)

Item(id, title, provider, type, source, tags, snippet) ==
    [id |-> id, title |-> title, provider |-> provider, type |-> type,
     source |-> source, tags |-> tags, snippet |-> snippet]

ItemPool ==
    {Item(<<"a">>, <<"B">>, <<>>, << <<"T">> >>, "official", << <<"a", "b">> >>, <<>>),
     Item(<<"A">>, <<"b">>, << <<"a">> >>, << <<"t">> >>, "community", <<>>, <<>>),
     Item(<<"b">>, <<"a", "b">>, <<>>, <<>>, "official", <<>>, << <<"B", "a">> >>),
     Item(<<"a", "b">>, <<"B">>, <<>>, << All >>, "community", << <<"x">>, <<"B">> >>, <<>>)}

ItemLists == UNION {[1..n -> ItemPool] : n \in 0..MaxItems}

Query(keyword, source, type, sortBy, sortDir, limit, page) ==
    [keyword |-> keyword, source |-> source, type |-> type, sortBy |-> sortBy,
     sortDir |-> sortDir, limit |-> limit, page |-> page]

Keywords == {<<>>, << <<" ">> >>, << <<"a">> >>, << <<" ", "T", " ">> >>, << <<"a", "b">> >>}
Sources == {<<>>, <<"all">>, <<"official">>, <<"community">>}
Types == {<<>>, << All >>, << <<"A", "L", "L">> >>, << <<"t">> >>, << <<"T">> >>, << <<>> >>}
SortKeys == {<<>>, <<"title">>, <<"id">>}
SortDirs == {<<>>, <<"asc">>, <<"desc">>}

\* limit and page as given together
Windows == {<<<<>>, <<>>>>, << <<1>>, <<2>> >>, << <<2>>, <<1>> >>, << <<2>>, <<2>> >>}

Queries ==
    {Query(kw, src, <<>>, <<>>, <<>>, <<>>, <<>>) : kw \in Keywords, src \in Sources}
    \cup {Query(kw, <<>>, ty, <<>>, <<>>, <<>>, <<>>) : kw \in Keywords, ty \in Types}
    \cup {Query(<<>>, src, ty, <<>>, <<>>, <<>>, <<>>) : src \in Sources, ty \in Types}
    \cup {Query(<<>>, <<>>, <<>>, by, dir, w[1], w[2]) :
            by \in SortKeys, dir \in SortDirs, w \in Windows}
    \cup {Query(kw, <<"official">>, ty, <<"id">>, dir, lim, pg) :
            kw \in {<< <<"a">> >>}, ty \in {<<>>, << <<"t">> >>},
            dir \in {<<"asc">>, <<"desc">>}, lim \in {<<-1>>, <<0>>, <<2>>},
            pg \in {<<-1>>, <<0>>, <<3>>}}

InitCatalog ==
    /\ catItems \in ItemLists
    /\ catQuery \in Queries
    /\ catFiltered = <<>>
    /\ catResult = <<>>
    /\ catPc = "start"
    /\ ClientIdle
    /\ ParseIdle
    /\ UrlIdle
    /\ PayloadIdle
    /\ LaterIdle

FilterCatalog ==
    /\ catPc = "start"
    /\ catFiltered' = filterCatalog(catItems, OrEmpty(catQuery.keyword))
    /\ catPc' = "filtered"
    /\ UNCHANGED <<catItems, catQuery, catResult, clientVars, parseVars, urlVars, payloadVars, laterVars>>

QueryCatalog ==
    /\ catPc = "start"
    /\ catResult' = queryCatalog(catItems, catQuery)
    /\ catPc' = "queried"
    /\ UNCHANGED <<catItems, catQuery, catFiltered, clientVars, parseVars, urlVars, payloadVars, laterVars>>

NextCatalog == FilterCatalog \/ QueryCatalog

SpecCatalog == InitCatalog /\ [][NextCatalog]_vars

----------------------------------------------------------------------------
(* Claims about the catalog query engine, under SpecCatalog.               *)

\* the texts of a record the keyword is looked for in
Texts(item) ==
    {item.id, item.title, OrEmpty(item.provider), OrEmpty(item.type), OrEmpty(item.snippet)}
    \cup Range(item.tags)

\* the trimmed, lower-cased keyword occurs in one of the record's lower-cased texts
KeywordIn(item, keyword) ==
    \E text \in Texts(item) : Includes(ToLowerCase(text), ToLowerCase(Trim(keyword)))

BlankKeyword == Trim(OrEmpty(catQuery.keyword)) = <<>>

\* C19: filterCatalog returns, in input order, exactly the records in which
\* the trimmed, lower-cased keyword occurs (in the lower-cased id, title,
\* provider, type, snippet or a tag); with an empty or whitespace-only
\* keyword it returns every record in the original order.
C19_FilterKeepsMatches ==
    catPc = "filtered" =>
        /\ catFiltered = KeepAt(catItems, {k \in 1..Len(catItems) :
                                    KeywordIn(catItems[k], OrEmpty(catQuery.keyword))})
        /\ BlankKeyword => catFiltered = catItems

C19_Witness ==
    /\ catPc = "filtered"
    /\ catQuery.keyword = << <<" ", "T", " ">> >>
    /\ catFiltered # <<>>
    /\ catFiltered # catItems

\* the filters of queryCatalog: keyword, source, and type compared in lower case
Passes(item, query) ==
    /\ KeywordIn(item, OrEmpty(query.keyword))
    /\ OrDefault(query.source, "all") # "all" => item.source = query.source[1]
    /\ ToLowerCase(OrDefault(query.type, All)) # All =>
            ToLowerCase(OrEmpty(item.type)) = ToLowerCase(query.type[1])

Passing == {k \in 1..Len(catItems) : Passes(catItems[k], catQuery)}

LimitChoices == {<<>>, <<0>>, <<1>>, <<2>>}
PageChoices == {<<>>, <<0>>, <<2>>}

\* C16: the total returned by queryCatalog is the number of records passing
\* the keyword, source and type filters, whatever page and limit are.
C16_TotalIsFilteredCount ==
    catPc = "queried" =>
        /\ catResult.total = Cardinality(Passing)
        /\ \A lim \in LimitChoices, pg \in PageChoices :
              queryCatalog(catItems, [catQuery EXCEPT !.limit = lim, !.page = pg]).total
                  = catResult.total

C16_Witness ==
    /\ catPc = "queried"
    /\ catResult.total < Len(catItems)
    /\ Len(catResult.items) < catResult.total

SortKey(item) ==
    ToLowerCase(IF OrDefault(catQuery.sortBy, "title") = "id" THEN item.id ELSE item.title)

Ascending == OrDefault(catQuery.sortDir, "asc") = "asc"

\* the result holds every filtered record: first page, at least total long
WholeResult ==
    /\ catPc = "queried"
    /\ catResult.page = 1
    /\ catResult.total <= catResult.pageSize

\* C17: the filtered records come out ordered by lower-cased sort key,
\* non-decreasing when ascending and non-increasing when descending, and
\* records whose keys are equal ignoring case keep their input order.
C17_SortedStable ==
    WholeResult =>
        LET out == catResult.items
        IN  /\ \A i, j \in 1..Len(out) :
                  i < j => IF Ascending
                           THEN ~StrLess(SortKey(out[j]), SortKey(out[i]))
                           ELSE ~StrLess(SortKey(out[i]), SortKey(out[j]))
            /\ \A item \in ItemPool :
                  KeepAt(out, {k \in 1..Len(out) : SortKey(out[k]) = SortKey(item)})
                      = KeepAt(catItems, {k \in Passing : SortKey(catItems[k]) = SortKey(item)})

C17_Witness ==
    /\ WholeResult
    /\ ~Ascending
    /\ \E i, j \in 1..Len(catResult.items) :
          /\ i < j
          /\ catResult.items[i] # catResult.items[j]
          /\ SortKey(catResult.items[i]) = SortKey(catResult.items[j])
    /\ \E i, j \in 1..Len(catResult.items) :
          StrLess(SortKey(catResult.items[j]), SortKey(catResult.items[i]))

\* the filtered records in sorted order, before any page is cut out
FullSequence ==
    SortItems(QueryFiltered(catItems, catQuery),
              OrDefault(catQuery.sortBy, "title"), OrDefault(catQuery.sortDir, "asc"))

PageItems(page, size) ==
    queryCatalog(catItems, [catQuery EXCEPT !.limit = <<size>>, !.page = <<page>>]).items

PageCount(total, size) == (total + size - 1) \div size

PagesJoined(size) ==
    LET upTo[p \in 0..PageCount(catResult.total, size)] ==
            IF p = 0 THEN <<>> ELSE upTo[p - 1] \o PageItems(p, size)
    IN  upTo[PageCount(catResult.total, size)]

PageSizes == 1..3

\* C18: for a fixed list, filters, sort and integer page size >= 1, the
\* pages 1..ceil(total/pageSize) joined in page order are the full
\* filtered, sorted sequence: nothing skipped or repeated at a boundary.
C18_PagesJoinToWhole ==
    catPc = "queried" =>
        /\ \A size \in PageSizes : PagesJoined(size) = FullSequence
        /\ catResult.items = PageItems(catResult.page, catResult.pageSize)
        /\ Len(FullSequence) = catResult.total

C18_Witness ==
    /\ catPc = "queried"
    /\ catResult.pageSize = 2
    /\ catResult.page = 2
    /\ catResult.total = 3
    /\ Len(catResult.items) = 1

\* the type filter as the claim reads it: 'all' keeps everything, any other
\* filter keeps the records that have a type equal to it ignoring case
TypeKeptAsClaimed(item, query) ==
    OrDefault(query.type, All) # All =>
        /\ item.type # <<>>
        /\ ToLowerCase(item.type[1]) = ToLowerCase(query.type[1])

KeptAsClaimed ==
    {k \in 1..Len(catItems) :
        /\ KeywordIn(catItems[k], OrEmpty(catQuery.keyword))
        /\ OrDefault(catQuery.source, "all") # "all" => catItems[k].source = catQuery.source[1]
        /\ TypeKeptAsClaimed(catItems[k], catQuery)}

\* C20: a source filter other than 'all' keeps exactly the records of that
\* source, a type filter other than 'all' exactly the records whose type
\* equals it ignoring case, a record without a type passing no such type
\* filter; filters that are 'all' or absent remove nothing.
C20_FiltersKeepExactly ==
    catPc = "queried" =>
        /\ catResult.total = Cardinality(KeptAsClaimed)
        /\ \A k \in 1..Len(catResult.items) :
              \E m \in KeptAsClaimed : catItems[m] = catResult.items[k]


\* the page asked for starts behind the last record
BeyondLastPage == (catResult.page - 1) * catResult.pageSize >= catResult.total

\* C21: queryCatalog answers for every integer page and limit: a limit or
\* page below 1 is treated as 1 and echoed as 1, and a page beyond the last
\* one gives an empty items list with the total unchanged.
C21_PagingNeverFails ==
    catPc = "queried" =>
        /\ DOMAIN catResult = {"items", "total", "page", "pageSize"}
        /\ (catQuery.limit # <<>> /\ catQuery.limit[1] < 1) => catResult.pageSize = 1
        /\ (catQuery.page # <<>> /\ catQuery.page[1] < 1) => catResult.page = 1
        /\ BeyondLastPage => /\ catResult.items = <<>>
                             /\ catResult.total = Cardinality(Passing)

C21_Witness ==
    /\ catPc = "queried"
    /\ catQuery.limit = <<-1>>
    /\ catQuery.page = <<3>>
    /\ catResult.total = 2
    /\ catResult.items = <<>>
    /\ catResult.pageSize = 1

----------------------------------------------------------------------------
(* groupCatalogByCategory (src/lib/ee/catalog.ts): records reduced into a   *)
(* plain object keyed by category.                                          *)

Other == <<"O", "t", "h", "e", "r">>

\* id.split('/')[0]
FirstSegment(id) ==
    LET slashes == {k \in 1..Len(id) : id[k] = "/"}
    IN  IF slashes = {} THEN id
        ELSE SubSeq(id, 1, (CHOOSE k \in slashes : \A m \in slashes : k <= m) - 1)

inferCategory(id) ==
    LET top == Trim(FirstSegment(id))
    IN  IF top = <<>> THEN Other ELSE top

\* item.category || inferCategory(item.id)
GroupKey(item) ==
    IF OrEmpty(item.category) # <<>> THEN item.category[1] ELSE inferCategory(item.id)

\* names every object literal inherits from Object.prototype (those met in the inputs)
InheritedKeys ==
    {<<"c", "o", "n", "s", "t", "r", "u", "c", "t", "o", "r">>,
     <<"t", "o", "S", "t", "r", "i", "n", "g">>,
     <<"_", "_", "p", "r", "o", "t", "o", "_", "_">>}

NotAFunctionMessage == <<"acc[key].push is not a function">>

\* one callback of the reduce: acc[key] is an own array, an inherited member
\* (truthy and without push), or undefined
GroupStep(acc, item) ==
    LET key == GroupKey(item)
    IN  IF key \in DOMAIN acc
        THEN Return([acc EXCEPT ![key] = Append(@, item)])
        ELSE IF key \in InheritedKeys
        THEN Throw(NotAFunctionMessage)
        ELSE Return([k \in DOMAIN acc \cup {key} |-> IF k = key THEN <<item>> ELSE acc[k]])

groupCatalogByCategory(items) ==
    LET upTo[n \in 0..Len(items)] ==
            IF n = 0 THEN Return(<<>>)
            ELSE IF upTo[n - 1].threw THEN upTo[n - 1]
            ELSE GroupStep(upTo[n - 1].value, items[n])
    IN  upTo[Len(items)]

Categorized(id, category) ==
    [id |-> id, title |-> id, provider |-> <<>>, type |-> <<>>, source |-> "official",
     tags |-> <<>>, snippet |-> <<>>, category |-> category]

GroupPool ==
    {Categorized(<<"a", "/", "x">>, <<>>),
     Categorized(<<"b">>, << <<"a">> >>),
     Categorized(<<" ", "/", "x">>, << <<>> >>),
     Categorized(<<"b", "/", "y">>, << <<"b">> >>),
     Categorized(<<"c", "o", "n", "s", "t", "r", "u", "c", "t", "o", "r", "/", "x">>, <<>>)}

GroupLists == UNION {[1..n -> GroupPool] : n \in 0..MaxItems}

InitGroup ==
    /\ catItems \in GroupLists
    /\ catQuery = <<>>
    /\ catFiltered = <<>>
    /\ catResult = <<>>
    /\ catPc = "start"
    /\ ClientIdle
    /\ ParseIdle
    /\ UrlIdle
    /\ PayloadIdle
    /\ LaterIdle

GroupCatalogByCategory ==
    /\ catPc = "start"
    /\ catResult' = groupCatalogByCategory(catItems)
    /\ catPc' = "grouped"
    /\ UNCHANGED <<catItems, catQuery, catFiltered, clientVars, parseVars, urlVars, payloadVars, laterVars>>

NextGroup == GroupCatalogByCategory

SpecGroup == InitGroup /\ [][NextGroup]_vars

\* the key the claim files a record under
ClaimedKey(item) ==
    IF item.category # <<>> /\ item.category[1] # <<>> THEN item.category[1]
    ELSE IF Trim(FirstSegment(item.id)) = <<>> THEN Other
    ELSE Trim(FirstSegment(item.id))

\* C22: groupCatalogByCategory partitions every list of records: each record
\* is in exactly the group keyed by its category (or, without one, by the
\* first '/'-segment of its id, 'Other' if empty), in input order.
C22_GroupsPartitionInput ==
    catPc = "grouped" =>
        /\ ~catResult.threw
        /\ DOMAIN catResult.value = {ClaimedKey(catItems[k]) : k \in 1..Len(catItems)}
        /\ \A key \in DOMAIN catResult.value :
              catResult.value[key]
                  = KeepAt(catItems, {k \in 1..Len(catItems) : ClaimedKey(catItems[k]) = key})

----------------------------------------------------------------------------
(* fetchCatalogs (src/lib/ee/catalog.ts): two feeds fetched concurrently,   *)
(* parsed leniently, normalized and concatenated.  A feed text is held as   *)
(* what a JSON reader sees of it: whether it is complete, whether its top   *)
(* level is an array, and its elements; an element is null or a record (a   *)
(* function from keys to values); a value is a string, null, or the bare    *)
(* token NaN, which JSON does not allow.                                    *)

Txt(s) == [t |-> "string", v |-> s]
NaNLiteral == [t |-> "NaN", v |-> <<>>]
NullElement == [t |-> "null", v |-> <<>>]
Strings(list) == [t |-> "array", v |-> list]

FeedText(complete, array, elements) ==
    [complete |-> complete, array |-> array, elements |-> elements]

\* record.key
Get(record, key) == IF key \in DOMAIN record THEN record[key] ELSE Undefined

\* a ?? b
Nullish(x) == x.t \in {"undefined", "null"}
Coalesce(a, b) == IF Nullish(a) THEN b ELSE a

\* String(x) for the values a parsed feed holds
String(x) ==
    CASE x.t = "string" -> x.v
      [] x.t = "null" -> <<"n", "u", "l", "l">>
      [] OTHER -> <<"u", "n", "d", "e", "f", "i", "n", "e", "d">>

\* x ? String(x) : otherwise
TextOr(x, otherwise) == IF x.t = "string" /\ x.v # <<>> THEN <<x.v>> ELSE otherwise

\* \w of a regular expression
WordChar(c) ==
    \/ \E k \in 1..26 : Uppers[k] = c \/ Lowers[k] = c
    \/ c \in {"0", "1", "2", "3", "4", "5", "6", "7", "8", "9", "_"}

\* /\bNaN\b/ matches at position k of s
NaNAt(s, k) ==
    /\ k + 2 <= Len(s)
    /\ SubSeq(s, k, k + 2) = <<"N", "a", "N">>
    /\ k = 1 \/ ~WordChar(s[k - 1])
    /\ k + 2 = Len(s) \/ ~WordChar(s[k + 3])

\* s.replace(/\bNaN\b/g, 'null')
ReplaceNaN(s) ==
    LET from[k \in 1..(Len(s) + 3)] ==
            IF k > Len(s) THEN <<>>
            ELSE IF NaNAt(s, k) THEN <<"n", "u", "l", "l">> \o from[k + 3]
            ELSE <<s[k]>> \o from[k + 1]
    IN  from[1]

\* the replacement applied to one value of the text, inside strings too
SanitizeValue(x) ==
    CASE x.t = "NaN" -> Null
      [] x.t = "string" -> Txt(ReplaceNaN(x.v))
      [] x.t = "array" -> Strings([k \in 1..Len(x.v) |-> ReplaceNaN(x.v[k])])
      [] OTHER -> x

SanitizeElement(e) ==
    IF e = NullElement THEN e ELSE [key \in DOMAIN e |-> SanitizeValue(e[key])]

\* text.replace(/\bNaN\b/g, 'null')
Sanitize(text) ==
    [text EXCEPT !.elements = [k \in 1..Len(text.elements) |-> SanitizeElement(text.elements[k])]]

\* JSON.parse accepts the text
WellFormed(text) ==
    /\ text.complete
    /\ \A k \in 1..Len(text.elements) :
          \/ text.elements[k] = NullElement
          \/ \A key \in DOMAIN text.elements[k] : text.elements[k][key].t # "NaN"

SyntaxErrorMessage == <<"SyntaxError">>

\* the outcome of parsing: the value or the error, the number of JSON.parse
\* calls made, and the text handed to the last of them
Parsed(text, passes) ==
    [threw |-> ~WellFormed(text), value |-> text,
     message |-> IF WellFormed(text) THEN <<>> ELSE SyntaxErrorMessage,
     passes |-> passes, read |-> text]

\* parsePossiblyInvalidJson replacing NaN before the first JSON.parse
parseSanitizedJson(text) == Parsed(Sanitize(text), 1)

parsePossiblyInvalidJson(text) ==
    IF WellFormed(text) THEN Parsed(text, 1) ELSE Parsed(Sanitize(text), 2)

\* asArray(input)
asArray(json) == IF json.array THEN json.elements ELSE <<>>

CommunityProvider == <<"c", "o", "m", "m", "u", "n", "i", "t", "y">>
SnippetLength == 240

\* the CatalogItem built by normalizeOfficial / normalizeCommunity from an id
Normalized(record, id, source, provider) ==
    [id |-> id,
     title |-> String(Coalesce(Get(record, "title"), Coalesce(Get(record, "name"), Txt(id)))),
     provider |-> TextOr(Get(record, "provider"), provider),
     type |-> TextOr(Get(record, "type"), <<>>),
     source |-> source,
     tags |-> IF Get(record, "tags").t = "array" THEN Get(record, "tags").v ELSE <<>>,
     snippet |-> IF TextOr(Get(record, "description"), <<>>) = <<>> THEN <<>>
                 ELSE <<SubSeq(Get(record, "description").v, 1,
                               Min2(SnippetLength, Len(Get(record, "description").v)))>>,
     category |-> <<inferCategory(id)>>]

TypeErrorMessage == <<"TypeError">>

\* normalizeOfficial keeping the id as written
normalizeOfficialUntrimmed(record) ==
    IF record = NullElement THEN Throw(TypeErrorMessage)
    ELSE LET id == String(Coalesce(Get(record, "id"), Coalesce(Get(record, "asset_id"), Txt(<<>>))))
         IN  IF id = <<>> THEN Return(<<>>)
             ELSE Return(<<Normalized(record, id, "official", <<>>)>>)

\* normalizeOfficial: <<>> for null, <<item>> for an item; reading a property
\* of a null element throws
normalizeOfficial(record) ==
    IF record = NullElement THEN Throw(TypeErrorMessage)
    ELSE LET id == Trim(String(Coalesce(Get(record, "id"),
                                        Coalesce(Get(record, "asset_id"), Txt(<<>>)))))
         IN  IF id = <<>> THEN Return(<<>>)
             ELSE Return(<<Normalized(record, id, "official", <<>>)>>)

normalizeCommunity(record) ==
    IF record = NullElement THEN Throw(TypeErrorMessage)
    ELSE LET id == Trim(String(Coalesce(Get(record, "id"),
                        Coalesce(Get(record, "asset_id"),
                                 Coalesce(Get(record, "dataset_id"), Txt(<<>>))))))
         IN  IF id = <<>> THEN Return(<<>>)
             ELSE Return(<<Normalized(record, id, "community", <<CommunityProvider>>)>>)

Normalize(feed, record) ==
    IF feed = "official" THEN normalizeOfficial(record) ELSE normalizeCommunity(record)

\* asArray(json).map(normalize).filter(Boolean)
NormalizeAll(feed, json) ==
    LET elements == asArray(json)
        upTo[n \in 0..Len(elements)] ==
            IF n = 0 THEN Return(<<>>)
            ELSE IF upTo[n - 1].threw THEN upTo[n - 1]
            ELSE IF Normalize(feed, elements[n]).threw THEN Normalize(feed, elements[n])
            ELSE Return(upTo[n - 1].value \o Normalize(feed, elements[n]).value)
    IN  upTo[Len(elements)]

NotParsed ==
    [threw |-> FALSE, value |-> FeedText(TRUE, FALSE, <<>>), message |-> <<>>,
     passes |-> 0, read |-> FeedText(TRUE, FALSE, <<>>)]

\* what fetchCatalogs resolves or rejects with, and how each text was parsed
Fetched(threw, items, message, official, community) ==
    [threw |-> threw, value |-> items, message |-> message,
     official |-> official, community |-> community]

\* the halves joined in the order the texts arrived
JoinAsArrived(order, official, community) ==
    IF order[1] = "official" THEN official \o community ELSE community \o official

\* return [...official, ...community]
Join(order, official, community) == official \o community

\* lines 89-95 of fetchCatalogs, run once both texts are there; order is the
\* order in which they arrived
FinishFetch(texts, order) ==
    LET officialJson == parsePossiblyInvalidJson(texts.official)
        communityJson == parsePossiblyInvalidJson(texts.community)
        official == NormalizeAll("official", officialJson.value)
        community == NormalizeAll("community", communityJson.value)
    IN  IF officialJson.threw
        THEN Fetched(TRUE, <<>>, officialJson.message, officialJson, NotParsed)
        ELSE IF communityJson.threw
        THEN Fetched(TRUE, <<>>, communityJson.message, officialJson, communityJson)
        ELSE IF official.threw
        THEN Fetched(TRUE, <<>>, official.message, officialJson, communityJson)
        ELSE IF community.threw
        THEN Fetched(TRUE, <<>>, community.message, officialJson, communityJson)
        ELSE Fetched(FALSE, Join(order, official.value, community.value), <<>>,
                     officialJson, communityJson)

Feeds == {"official", "community"}

\* const [...] = await Promise.all([fetch(OFFICIAL_URL), fetch(COMMUNITY_URL)])
FetchCatalogs ==
    /\ fetchPc = "start"
    /\ fetchPc' = "fetching"
    /\ UNCHANGED <<fetchFeeds, fetchHeaders, fetchBodies, fetchResult>>

\* one fetch settles; Promise.all rejects with the first rejection and
\* resolves when both have resolved
ResponseArrives(feed) ==
    /\ fetchPc = "fetching"
    /\ feed \notin Range(fetchHeaders)
    /\ fetchHeaders' = Append(fetchHeaders, feed)
    /\ IF ~fetchFeeds[feed].reached
       THEN /\ fetchResult' = Fetched(TRUE, <<>>, FetchFailedMessage, NotParsed, NotParsed)
            /\ fetchPc' = "done"
       ELSE /\ fetchResult' = fetchResult
            /\ fetchPc' = IF Len(fetchHeaders) = 1 THEN "reading" ELSE "fetching"
    /\ UNCHANGED <<fetchFeeds, fetchBodies>>

\* one text() settles; after the second the rest of fetchCatalogs runs
TextArrives(feed) ==
    /\ fetchPc = "reading"
    /\ feed \notin Range(fetchBodies)
    /\ fetchBodies' = Append(fetchBodies, feed)
    /\ IF Len(fetchBodies) = 1
       THEN /\ fetchResult' = FinishFetch([f \in Feeds |-> fetchFeeds[f].text], fetchBodies')
            /\ fetchPc' = "done"
       ELSE /\ fetchResult' = fetchResult
            /\ fetchPc' = "reading"
    /\ UNCHANGED <<fetchFeeds, fetchHeaders>>

Served(text) == [reached |-> TRUE, text |-> text]
Unreachable == [reached |-> FALSE, text |-> FeedText(FALSE, FALSE, <<>>)]

Rec(keys, values) == [k \in Range(keys) |-> values[CHOOSE n \in 1..Len(keys) : keys[n] = k]]

OfficialFeeds ==
    {Served(FeedText(TRUE, TRUE,
        <<Rec(<<"id">>, <<Txt(<<" ", "a", "/", "x", " ">>)>>),
          Rec(<<"id", "title">>, <<Txt(<<>>), Txt(<<"t">>)>>),
          Rec(<<"asset_id", "name">>, <<Txt(<<"b">>), Txt(<<"n">>)>>),
          Rec(<<"title">>, <<Txt(<<"u">>)>>)>>)),
     Served(FeedText(TRUE, TRUE,
        <<Rec(<<"id", "title", "min">>, <<Txt(<<"c">>), Txt(<<"N", "a", "N">>), NaNLiteral>>)>>)),
     Served(FeedText(TRUE, TRUE,
        <<Rec(<<"id", "provider">>, <<Txt(<<"N", "a", "N">>), Txt(<<"p">>)>>)>>)),
     Served(FeedText(FALSE, TRUE, <<Rec(<<"id">>, <<Txt(<<"a">>)>>)>>)),
     Served(FeedText(TRUE, FALSE, <<>>)),
     Served(FeedText(TRUE, TRUE, <<NullElement, Rec(<<"id">>, <<Txt(<<"a">>)>>)>>)),
     Unreachable}

CommunityFeeds ==
    {Served(FeedText(TRUE, TRUE,
        <<Rec(<<"dataset_id">>, <<Txt(<<"d">>)>>),
          Rec(<<"id">>, <<Txt(<<" ", "\t">>)>>),
          Rec(<<"id", "asset_id">>, <<Null, Txt(<<"e", " ">>)>>)>>)),
     Served(FeedText(TRUE, TRUE,
        <<Rec(<<"id", "max">>, <<Txt(<<"f">>), NaNLiteral>>)>>)),
     Served(FeedText(FALSE, TRUE, <<Rec(<<"id", "max">>, <<Txt(<<"g">>), NaNLiteral>>)>>)),
     Unreachable}

InitFetch ==
    /\ fetchFeeds \in {[official |-> o, community |-> c] : o \in OfficialFeeds, c \in CommunityFeeds}
    /\ fetchHeaders = <<>>
    /\ fetchBodies = <<>>
    /\ fetchResult = <<>>
    /\ fetchPc = "start"
    /\ ClientIdle
    /\ ParseIdle
    /\ UrlIdle
    /\ PayloadIdle
    /\ CatalogIdle
    /\ LayerIdle
    /\ ControlIdle

NextFetch ==
    \/ FetchCatalogs /\ UNCHANGED <<clientVars, parseVars, urlVars, payloadVars, catalogVars, layerVars, controlVars>>
    \/ \E feed \in Feeds :
          ResponseArrives(feed) /\ UNCHANGED <<clientVars, parseVars, urlVars, payloadVars, catalogVars, layerVars, controlVars>>
    \/ \E feed \in Feeds :
          TextArrives(feed) /\ UNCHANGED <<clientVars, parseVars, urlVars, payloadVars, catalogVars, layerVars, controlVars>>

SpecFetch == InitFetch /\ [][NextFetch]_vars

----------------------------------------------------------------------------
(* Claims about fetchCatalogs, under SpecFetch.                             *)

FetchReturned == fetchPc = "done" /\ ~fetchResult.threw

\* the id a feed record carries: the first of the feed's id keys that is set
IdKeys(feed) ==
    IF feed = "official" THEN <<"id", "asset_id">> ELSE <<"id", "asset_id", "dataset_id">>

CarriedId(feed, record) ==
    LET set == {n \in 1..Len(IdKeys(feed)) : ~Nullish(Get(record, IdKeys(feed)[n]))}
    IN  IF set = {} THEN <<>>
        ELSE String(Get(record, IdKeys(feed)[CHOOSE n \in set : \A m \in set : n <= m]))

\* the records the feed's parsed text holds, and their trimmed ids once the
\* records with a missing, empty or whitespace-only id are left out
FeedRecords(feed) == asArray(fetchResult[feed].value)

KeptIds(feed) ==
    LET records == FeedRecords(feed)
        kept == KeepAt(records, {k \in 1..Len(records) : Trim(CarriedId(feed, records[k])) # <<>>})
    IN  [k \in 1..Len(kept) |-> Trim(CarriedId(feed, kept[k]))]

\* C23: every returned record has a non-empty id without leading or
\* trailing whitespace; feed records whose id is missing, empty or blank are
\* dropped without an error and without removing or reordering the others.
C23_BlankIdsDropped ==
    /\ FetchReturned =>
          /\ \A k \in 1..Len(fetchResult.value) :
                /\ fetchResult.value[k].id # <<>>
                /\ Trim(fetchResult.value[k].id) = fetchResult.value[k].id
          /\ [k \in 1..Len(fetchResult.value) |-> fetchResult.value[k].id]
                = KeptIds("official") \o KeptIds("community")
    /\ (fetchPc = "done" /\ fetchResult.threw) =>
          \/ \E feed \in Feeds : ~fetchFeeds[feed].reached
          \/ \E feed \in Feeds : ~WellFormed(Sanitize(fetchFeeds[feed].text))
          \/ \E feed \in Feeds : NullElement \in Range(fetchFeeds[feed].text.elements)

C23_Witness ==
    /\ FetchReturned
    /\ Len(fetchResult.value) = 4
    /\ Len(FeedRecords("official")) = 4
    /\ Len(FeedRecords("community")) = 3

\* C24: whichever fetch and whichever text settles first, the list is the
\* official records in feed order followed by the community records in
\* feed order.
C24_OfficialThenCommunity ==
    FetchReturned =>
        /\ fetchResult.value = NormalizeAll("official", fetchResult.official.value).value
                                  \o NormalizeAll("community", fetchResult.community.value).value
        /\ \A i, j \in 1..Len(fetchResult.value) :
              i < j => ~(fetchResult.value[i].source = "community"
                           /\ fetchResult.value[j].source = "official")

C24_Witness ==
    /\ FetchReturned
    /\ fetchHeaders = <<"community", "official">>
    /\ fetchBodies = <<"community", "official">>
    /\ \E i, j \in 1..Len(fetchResult.value) :
          fetchResult.value[i].source = "official" /\ fetchResult.value[j].source = "community"

\* C25: a text that JSON.parse accepts is parsed once and as it is; a text
\* it rejects is parsed exactly once more with NaN replaced by null; when a
\* feed fails that second parse too, fetchCatalogs fails and returns nothing.
C25_LenientParseOnce ==
    fetchPc = "done" =>
        \A feed \in Feeds :
            fetchResult[feed].passes > 0 =>
                /\ WellFormed(fetchFeeds[feed].text) =>
                      /\ fetchResult[feed].passes = 1
                      /\ fetchResult[feed].read = fetchFeeds[feed].text
                /\ ~WellFormed(fetchFeeds[feed].text) =>
                      /\ fetchResult[feed].passes = 2
                      /\ fetchResult[feed].read = Sanitize(fetchFeeds[feed].text)
                /\ fetchResult[feed].threw =>
                      fetchResult.threw /\ fetchResult.value = <<>>

C25_Witness ==
    /\ fetchPc = "done"
    /\ fetchResult.official.passes = 2
    /\ ~fetchResult.official.threw
    /\ fetchResult.community.passes = 2
    /\ fetchResult.community.threw
    /\ fetchResult.threw

----------------------------------------------------------------------------
(* Layer rendering (src/lib/ee/layer.ts): addTileUrlLayer replaces the      *)
(* source and layer of one id pair; renderEeLayer awaits getMapId first.    *)

MaxRenders == 2

SourceId == "ee-source"
LayerId == "ee-layer"
DefaultOpacity == "1"

\* an id added to / taken out of one of the map's collections
With(collection, id, member) ==
    [k \in DOMAIN collection \cup {id} |-> IF k = id THEN member ELSE collection[k]]
Without(collection, id) == [k \in DOMAIN collection \ {id} |-> collection[k]]

RasterSource(tileUrl) == [type |-> "raster", tiles |-> <<tileUrl>>, tileSize |-> 256]
RasterLayer(layerId, sourceId, vis) ==
    [id |-> layerId, type |-> "raster", source |-> sourceId,
     opacity |-> OrDefault(vis, DefaultOpacity)]

\* the removals of addTileUrlLayer with the source taken out first
RemovalsSourceFirst(sourceId, layerId) ==
    (IF sourceId \in DOMAIN mapSources THEN <<"removeSource">> ELSE <<>>)
    \o (IF layerId \in DOMAIN mapLayers THEN <<"removeLayer">> ELSE <<>>)

\* if (map.getLayer(layerId)) map.removeLayer(layerId);
\* if (map.getSource(sourceId)) map.removeSource(sourceId);
Removals(sourceId, layerId) ==
    (IF layerId \in DOMAIN mapLayers THEN <<"removeLayer">> ELSE <<>>)
    \o (IF sourceId \in DOMAIN mapSources THEN <<"removeSource">> ELSE <<>>)

addTileUrlLayer(tileUrl, vis, sourceId, layerId) ==
    /\ mapOps' = Removals(sourceId, layerId) \o <<"addSource", "addLayer">>
    /\ mapSources' = With(Without(mapSources, sourceId), sourceId, RasterSource(tileUrl))
    /\ mapLayers' = With(Without(mapLayers, layerId), layerId, RasterLayer(layerId, sourceId, vis))
    /\ layerDone' = [state |-> "added", url |-> tileUrl]

\* addTileUrlLayer called directly, as PluginControl does with an endpoint's tile URL
AddTileUrlLayer(tileUrl, vis) ==
    /\ addTileUrlLayer(tileUrl, vis, SourceId, LayerId)
    /\ UNCHANGED renders

\* how getMapId will answer: with a urlFormat, or by throwing
MapId(tileUrl) == [rejects |-> FALSE, urlFormat |-> tileUrl]
MapIdFails == [rejects |-> TRUE, urlFormat |-> ""]

\* renderEeLayer up to its await
renderEeLayer(answer, vis) ==
    /\ Len(renders) < MaxRenders
    /\ renders' = Append(renders, [answer |-> answer, vis |-> vis])
    /\ UNCHANGED <<mapSources, mapLayers, mapOps, layerDone>>

\* renderEeLayer from its await on: the promise of mapIdForObject settles
renderEeLayerResume(i) ==
    /\ i \in 1..Len(renders)
    /\ renders' = RemoveAt(renders, i)
    /\ IF renders[i].answer.rejects
       THEN /\ layerDone' = [state |-> "rejected", url |-> layerDone.url]
            /\ UNCHANGED <<mapSources, mapLayers, mapOps>>
       ELSE addTileUrlLayer(renders[i].answer.urlFormat, renders[i].vis, SourceId, LayerId)

TileUrls == {"https://tiles.example/1/{z}/{x}/{y}", "https://tiles.example/2/{z}/{x}/{y}"}
Opacities == {<<>>, <<"0.5">>}
Answers == {MapId(u) : u \in TileUrls} \cup {MapIdFails}

InitLayer ==
    /\ LayerIdle
    /\ ClientIdle
    /\ ParseIdle
    /\ UrlIdle
    /\ PayloadIdle
    /\ CatalogIdle
    /\ FetchIdle
    /\ ControlIdle

NextLayer ==
    \/ \E u \in TileUrls, vis \in Opacities :
          AddTileUrlLayer(u, vis)
          /\ UNCHANGED <<clientVars, parseVars, urlVars, payloadVars, catalogVars, fetchVars, controlVars>>
    \/ \E answer \in Answers, vis \in Opacities :
          renderEeLayer(answer, vis)
          /\ UNCHANGED <<clientVars, parseVars, urlVars, payloadVars, catalogVars, fetchVars, controlVars>>
    \/ \E i \in 1..MaxRenders :
          renderEeLayerResume(i)
          /\ UNCHANGED <<clientVars, parseVars, urlVars, payloadVars, catalogVars, fetchVars, controlVars>>

SpecLayer == InitLayer /\ [][NextLayer]_vars

\* a layer call has ended, whether it added the layer or was rejected
LayerCallEnded == layerDone.state # "none"

OnePair(tileUrl) ==
    /\ DOMAIN mapSources = {SourceId}
    /\ DOMAIN mapLayers = {LayerId}
    /\ mapSources[SourceId].tiles = <<tileUrl>>
    /\ mapLayers[LayerId].source = SourceId

\* C26 as stated: after any layer calls with the same ids the map holds
\* one source and one layer under them, with the tile URL of the call that
\* completed last.
C26_OnePairAfterAnyCall ==
    LayerCallEnded => OnePair(layerDone.url)

\* C26: once a call has added its layer, the map holds exactly one source
\* and one layer under the ids, with the tile URL of the latest call that
\* added (a rejected renderEeLayer leaves the map as it was); a replacing
\* call removes the old layer, then the old source, then adds source and layer.
C26_OnePairOfLatestAdded ==
    /\ layerDone.url # "" => OnePair(layerDone.url)
    /\ mapOps # <<>> =>
          /\ DOMAIN mapSources = {SourceId}
          /\ DOMAIN mapLayers = {LayerId}
          /\ mapOps \in {<<"addSource", "addLayer">>,
                         <<"removeLayer", "removeSource", "addSource", "addLayer">>}
    /\ mapOps = <<>> => mapSources = <<>> /\ mapLayers = <<>>

C26_Witness ==
    /\ layerDone.state = "rejected"
    /\ layerDone.url # ""
    /\ mapOps = <<"removeLayer", "removeSource", "addSource", "addLayer">>
    /\ renders # <<>>

----------------------------------------------------------------------------
(* Claims about concurrent calls on one endpoint client, under Spec.        *)

TilesInFlight == {k \in 1..Len(inflight) : inflight[k].op = "getTileUrl"}

\* a getTileUrl call has just settled, ending a stretch in which getTileUrl
\* calls were in flight together, and none is in flight any more
AllTilesFinished == TileSettled /\ last.overlapped /\ TilesInFlight = {}

SingleSnapshots == {parseCapabilities(postJson(resp).value) : resp \in {r \in Responses : ~postJson(r).threw}}

----------------------------------------------------------------------------
(* PluginControl (src/lib/core/PluginControl.ts): the endpoint settings and *)
(* the endpoint client the control holds.  cachedCapabilities, inflight and *)
(* last are those of the client the control holds now; the requests of a    *)
(* client that was replaced can no longer reach the one that replaced it.   *)

\* the characters of a string, joined
RECURSIVE Joined(_)
Joined(chars) == IF chars = <<>> THEN "" ELSE Head(chars) \o Joined(Tail(chars))

\* this._tileEndpointToken || undefined
TokenOption(token) == IF token = <<>> THEN Undefined ELSE Str(Joined(token))

\* no client: this._endpointClient = undefined
NoClient == [client |-> "none", cachedCapabilities |-> CapsPrim(Null)]

\* this._endpointClient = createEndpointClient(...), or undefined when that throws
NewClient(made) ==
    IF made.threw THEN NoClient
    ELSE [client |-> "client", cachedCapabilities |-> made.value.cachedCapabilities]

\* _refreshEndpointClient, for the endpoint and token the fields hold
refreshEndpointClient(endpoint, token) ==
    IF Trim(endpoint) = <<>> THEN NoClient
    ELSE NewClient(createEndpointClient([endpoint |-> endpoint, token |-> TokenOption(token)]))

\* {} as capabilities() and the save handler report it
NoCapabilities == CapsObj(Undefined, Undefined, Undefined)

\* this._endpointClient?.capabilities() ?? {}
ReportedCapabilities(refreshed) ==
    IF refreshed.client = "none" THEN NoCapabilities
    ELSE IF refreshed.cachedCapabilities.raw \in {Null, Undefined} THEN NoCapabilities
    ELSE refreshed.cachedCapabilities

\* the record of a handler of the control that has just run (replaced and
\* unchanged are kept by the handler that runs right after a save: the snapshot
\* of the client the save replaced, and whether it saved the same endpoint and token)
Ui(op) ==
    [op |-> op, index |-> tsIndex, frames |-> Len(tsFrames), sent |-> FALSE, report |-> <<>>,
     replaced |-> IF ui.op = "save" THEN ui.replaced ELSE CapsPrim(Null),
     unchanged |-> ui.op = "save" /\ ui.unchanged]

\* the latest event of a client no method of which has been called
NoEvent ==
    [kind |-> "none", op |-> "none", sent |-> FALSE, state |-> "none",
     url |-> Undefined, data |-> EmptyBody, message |-> <<>>,
     resp |-> NoResponse, before |-> CapsPrim(Null), overlapped |-> FALSE]

\* what a save notes for the handler that follows it
Saved(refreshed, endpoint, token) ==
    [Ui("save") EXCEPT
        !.report = <<ReportedCapabilities(refreshed)>>,
        !.replaced = IF endpointClient = "client" THEN cachedCapabilities ELSE CapsPrim(Null),
        !.unchanged = /\ endpointClient = "client"
                      /\ endpoint = tileEndpoint
                      /\ token = tileEndpointToken]

\* the save handler leaving the client alone when it saves the endpoint and
\* token the client was made for
SaveSettingsUnlessSame(endpointValue, tokenValue) ==
    LET endpoint == normalizeEndpointUrl(Trim(endpointValue))
        token == Trim(tokenValue)
        refreshed == refreshEndpointClient(endpoint, token)
    IN  IF endpointClient = "client" /\ endpoint = tileEndpoint /\ token = tileEndpointToken
        THEN /\ ui' = Saved([client |-> "client", cachedCapabilities |-> cachedCapabilities],
                            endpoint, token)
             /\ UNCHANGED <<settingsVars, clientVars, panelVars>>
        ELSE /\ tileEndpoint' = endpoint
             /\ tileEndpointToken' = token
             /\ endpointClient' = refreshed.client
             /\ cachedCapabilities' = refreshed.cachedCapabilities
             /\ inflight' = <<>>
             /\ last' = NoEvent
             /\ ui' = Saved(refreshed, endpoint, token)
             /\ UNCHANGED panelVars

\* the click handler of the settings panel's save button
SaveSettings(endpointValue, tokenValue) ==
    LET endpoint == normalizeEndpointUrl(Trim(endpointValue))
        token == Trim(tokenValue)
        refreshed == refreshEndpointClient(endpoint, token)
    IN  /\ tileEndpoint' = endpoint
        /\ tileEndpointToken' = token
        /\ endpointClient' = refreshed.client
        /\ cachedCapabilities' = refreshed.cachedCapabilities
        /\ inflight' = <<>>
        /\ last' = NoEvent
        /\ ui' = Saved(refreshed, endpoint, token)
        /\ UNCHANGED panelVars

\* a handler of the control that calls a gated method of the client it holds:
\* the inspector's map click, the export button, a time-series frame load
\* (if (!this._endpointClient) { ...; return; } comes first in each)
FeatureHandler(op, call) ==
    /\ IF endpointClient = "client" THEN call ELSE UNCHANGED clientVars
    /\ ui' = Ui(op)
    /\ UNCHANGED <<settingsVars, panelVars>>

InspectClick == FeatureHandler("inspectPixel", inspectPixel)
ExportClick == FeatureHandler("requestExport", requestExport)
LoadTimeSeries == FeatureHandler("requestTimeSeries", requestTimeSeries)

\* loadAsset / runScript asking the endpoint for a tile URL
LoadTiles(payload) ==
    /\ endpointClient = "client"
    /\ getTileUrl(payload)
    /\ ui' = Ui("getTileUrl")
    /\ UNCHANGED <<settingsVars, panelVars>>

\* what the endpoint field and the token field of the settings panel may hold
EndpointValues ==
    {<<>>, <<" ">>, <<" ">> \o HttpsScheme \o <<"e", ".", "c", "o", "/", "t">>}
TokenValues == {<<>>, <<"s", " ">>}

\* the payload of loadAsset, and what an endpoint answers in these runs: a tile
\* URL with every capability, a tile URL with export only, or a failure
AssetPayloads == {[NoPayload EXCEPT !.assetId = Str("USGS/SRTMGL1_003")]}
Answered ==
    {Http(200, "{json}", <<AdvertisingBody>>),
     Http(200, "{json}", <<[AdvertisingBody EXCEPT !.capabilities = CapsObj(False, True, False)]>>),
     Http(500, "", <<>>)}

\* the constructor: the stored endpoint normalized, the stored token, a client for them;
\* then onAdd, and the inspector switched on
InitSettings ==
    /\ \E endpoint \in EndpointValues, token \in {Trim(t) : t \in TokenValues} :
          /\ tileEndpoint = normalizeEndpointUrl(endpoint)
          /\ tileEndpointToken = token
          /\ endpointClient = refreshEndpointClient(tileEndpoint, tileEndpointToken).client
    /\ ClientIdle
    /\ attached = TRUE
    /\ inspectorActive = TRUE
    /\ mapClickHandler = TRUE
    /\ clickHandlers = 1
    /\ tsFrames = <<>>
    /\ tsIndex = 0
    /\ tsButtons = 0
    /\ tsLoads = <<>>
    /\ ui = NoUi
    /\ ParseIdle
    /\ UrlIdle
    /\ PayloadIdle
    /\ CatalogIdle
    /\ FetchIdle
    /\ LayerIdle

othersVars == <<parseVars, urlVars, payloadVars, catalogVars, fetchVars, layerVars>>

NextSettings ==
    \/ \E endpointValue \in EndpointValues, tokenValue \in TokenValues :
          SaveSettings(endpointValue, tokenValue) /\ UNCHANGED othersVars
    \/ InspectClick /\ UNCHANGED othersVars
    \/ ExportClick /\ UNCHANGED othersVars
    \/ LoadTimeSeries /\ UNCHANGED othersVars
    \/ \E payload \in AssetPayloads : LoadTiles(payload) /\ UNCHANGED othersVars
    \/ \E i \in 1..MaxInFlight, resp \in Answered :
          getTileUrlResume(i, resp) /\ UNCHANGED <<othersVars, controlVars>>
    \/ \E i \in 1..MaxInFlight, resp \in Answered :
          inspectPixelResume(i, resp) /\ UNCHANGED <<othersVars, controlVars>>
    \/ \E i \in 1..MaxInFlight, resp \in Answered :
          requestExportResume(i, resp) /\ UNCHANGED <<othersVars, controlVars>>
    \/ \E i \in 1..MaxInFlight, resp \in Answered :
          requestTimeSeriesResume(i, resp) /\ UNCHANGED <<othersVars, controlVars>>

SpecSettings == InitSettings /\ [][NextSettings]_vars

\* C28: saving the endpoint settings leaves the control with a new client
\* (none when the saved URL is empty) whose capability state is unknown and
\* which has nothing in flight, the capabilities the save reports are empty,
\* and the inspect, export or time-series call that follows the save is
\* sent, not rejected by ensureSupported, whatever the replaced client's
\* snapshot said and even when endpoint and token were left as they were.
C28_SaveForgetsCapabilities ==
    /\ [](ui.op = "save" =>
            /\ endpointClient = (IF tileEndpoint = <<>> THEN "none" ELSE "client")
            /\ Unknown(cachedCapabilities)
            /\ inflight = <<>>
            /\ ui.report = <<NoCapabilities>>)
    /\ [][(ui.op = "save" /\ ui'.op \in FeatureOps)
            => IF endpointClient = "client"
               THEN /\ last'.kind = "call"
                    /\ last'.sent
                    /\ last'.state = "pending"
                    /\ inflight' = <<Request(ui'.op, PathOf(ui'.op))>>
               ELSE UNCHANGED clientVars]_vars

C28_Witness ==
    /\ ui.op = "inspectPixel"
    /\ ui.unchanged
    /\ Known(ui.replaced)
    /\ ~Truthy(ui.replaced.inspect)
    /\ last.kind = "call"
    /\ last.sent
    /\ inflight = <<Request("inspectPixel", "/inspect")>>

----------------------------------------------------------------------------
(* PluginControl on a map: onAdd / onRemove, the inspector toggle and the   *)
(* time-series panel (Generate sequence, Prev frame, Next frame, the frame  *)
(* buttons).  A button is clicked only while its panel is in the document,  *)
(* that is between onAdd and onRemove.                                      *)

MaxLoads == 2

\* const steps = 6
Steps == 6

TsSourceId == "ee-ts-source"
TsLayerId == "ee-ts-layer"

\* _enableInspector
enableInspector ==
    IF ~attached THEN UNCHANGED <<mapClickHandler, clickHandlers>>
    ELSE /\ mapClickHandler' = TRUE
         /\ clickHandlers' = clickHandlers + 1

\* _disableInspector
disableInspector ==
    /\ clickHandlers' = IF attached /\ mapClickHandler THEN clickHandlers - 1 ELSE clickHandlers
    /\ mapClickHandler' = FALSE
    /\ inspectorActive' = FALSE

onAdd ==
    /\ ~attached
    /\ attached' = TRUE
    /\ tsButtons' = 0
    /\ ui' = Ui("onAdd")
    /\ UNCHANGED <<inspectorActive, mapClickHandler, clickHandlers, tsFrames, tsIndex, tsLoads>>
    /\ UNCHANGED <<settingsVars, layerVars>>

\* onRemove leaving the inspector as it is
onRemoveKeepingInspector ==
    /\ attached' = FALSE
    /\ ui' = Ui("onRemove")
    /\ UNCHANGED <<inspectorActive, mapClickHandler, clickHandlers>>
    /\ UNCHANGED <<tsFrames, tsIndex, tsButtons, tsLoads, settingsVars, layerVars>>

onRemove ==
    /\ disableInspector
    /\ attached' = FALSE
    /\ ui' = Ui("onRemove")
    /\ UNCHANGED <<tsFrames, tsIndex, tsButtons, tsLoads, settingsVars, layerVars>>

\* the click handler of the inspector panel's toggle button
ToggleInspector ==
    /\ attached
    /\ IF ~inspectorActive
       THEN inspectorActive' = TRUE /\ enableInspector
       ELSE disableInspector
    /\ ui' = Ui("toggle")
    /\ UNCHANGED <<attached, tsFrames, tsIndex, tsButtons, tsLoads, settingsVars, layerVars>>

Frame(i, startDate, endDate) == [label |-> i, startDate |-> startDate, endDate |-> endDate]

\* buildFrames, the click handler of Generate sequence (it ends in renderFrames)
buildFrames(startDate, endDate) ==
    /\ attached
    /\ IF startDate = "" \/ endDate = ""
       THEN UNCHANGED <<tsFrames, tsIndex, tsButtons>>
       ELSE /\ tsFrames' = [i \in 1..Steps |-> Frame(i, startDate, endDate)]
            /\ tsIndex' = 0
            /\ tsButtons' = Steps
    /\ ui' = [Ui("generate") EXCEPT !.report = <<startDate, endDate>>]
    /\ UNCHANGED <<attached, inspectorActive, mapClickHandler, clickHandlers, tsLoads>>
    /\ UNCHANGED <<settingsVars, layerVars>>

\* _loadTimeSeriesFrame up to its first await, and the renderFrames of the
\* handler that called it when it returns at once
loadTimeSeriesFrame(op) ==
    IF ~attached \/ endpointClient = "none"
    THEN /\ tsButtons' = Len(tsFrames')
         /\ ui' = Ui(op)
         /\ UNCHANGED tsLoads
    ELSE /\ Len(tsLoads) < MaxLoads
         /\ tsLoads' = Append(tsLoads, "requestTimeSeries")
         /\ ui' = [Ui(op) EXCEPT !.sent = TRUE]
         /\ UNCHANGED tsButtons

\* Prev frame moving the index back without a floor
PrevFrameUnclamped ==
    /\ attached
    /\ IF Len(tsFrames) = 0
       THEN /\ ui' = Ui("prev")
            /\ UNCHANGED <<tsFrames, tsIndex, tsButtons, tsLoads>>
       ELSE /\ tsIndex' = tsIndex - 1
            /\ UNCHANGED tsFrames
            /\ loadTimeSeriesFrame("prev")
    /\ UNCHANGED <<attached, inspectorActive, mapClickHandler, clickHandlers>>
    /\ UNCHANGED <<settingsVars, layerVars>>

\* the click handler of Prev frame
PrevFrame ==
    /\ attached
    /\ IF Len(tsFrames) = 0
       THEN /\ ui' = Ui("prev")
            /\ UNCHANGED <<tsFrames, tsIndex, tsButtons, tsLoads>>
       ELSE /\ tsIndex' = Max2(0, tsIndex - 1)
            /\ UNCHANGED tsFrames
            /\ loadTimeSeriesFrame("prev")
    /\ UNCHANGED <<attached, inspectorActive, mapClickHandler, clickHandlers>>
    /\ UNCHANGED <<settingsVars, layerVars>>

\* the click handler of Next frame
NextFrame ==
    /\ attached
    /\ IF Len(tsFrames) = 0
       THEN /\ ui' = Ui("next")
            /\ UNCHANGED <<tsFrames, tsIndex, tsButtons, tsLoads>>
       ELSE /\ tsIndex' = Min2(Len(tsFrames) - 1, tsIndex + 1)
            /\ UNCHANGED tsFrames
            /\ loadTimeSeriesFrame("next")
    /\ UNCHANGED <<attached, inspectorActive, mapClickHandler, clickHandlers>>
    /\ UNCHANGED <<settingsVars, layerVars>>

\* the click handler of the frame button renderFrames made for index idx
FrameClick(idx) ==
    /\ attached
    /\ idx \in 0..(tsButtons - 1)
    /\ tsIndex' = idx
    /\ UNCHANGED tsFrames
    /\ loadTimeSeriesFrame("frame")
    /\ UNCHANGED <<attached, inspectorActive, mapClickHandler, clickHandlers>>
    /\ UNCHANGED <<settingsVars, layerVars>>

\* _loadTimeSeriesFrame from its first await on: requestTimeSeries settled
\* (a rejection is caught), and getTileUrl is called on the client held now
SeriesAnswered(i) ==
    /\ i \in 1..Len(tsLoads)
    /\ tsLoads[i] = "requestTimeSeries"
    /\ IF endpointClient = "none"
       THEN /\ tsLoads' = RemoveAt(tsLoads, i)
            /\ tsButtons' = Len(tsFrames)
       ELSE /\ tsLoads' = [tsLoads EXCEPT ![i] = "getTileUrl"]
            /\ UNCHANGED tsButtons
    /\ UNCHANGED <<attached, inspectorActive, mapClickHandler, clickHandlers, tsFrames, tsIndex>>
    /\ UNCHANGED <<settingsVars, layerVars, ui>>

\* _loadTimeSeriesFrame from its second await on: with a tile URL the layer is
\* added to the map the control is on (with no map, or no tile URL, the error
\* is caught); then the renderFrames of the handler that called it
TileAnswered(i, answer) ==
    /\ i \in 1..Len(tsLoads)
    /\ tsLoads[i] = "getTileUrl"
    /\ tsLoads' = RemoveAt(tsLoads, i)
    /\ tsButtons' = Len(tsFrames)
    /\ IF answer.rejects \/ ~attached
       THEN UNCHANGED <<mapSources, mapLayers, mapOps, layerDone>>
       ELSE addTileUrlLayer(answer.urlFormat, <<DefaultOpacity>>, TsSourceId, TsLayerId)
    /\ UNCHANGED renders
    /\ UNCHANGED <<attached, inspectorActive, mapClickHandler, clickHandlers, tsFrames, tsIndex>>
    /\ UNCHANGED <<settingsVars, ui>>

\* what the date fields of the panel may hold
DateValues == {"", "2024-01-01"}

\* what getTileUrl answers a frame load with
TileAnswers == {MapId("https://tiles.example/ts/{z}/{x}/{y}"), MapIdFails}

\* a control just constructed, with or without an endpoint client
InitPanel ==
    /\ endpointClient \in {"none", "client"}
    /\ tileEndpoint = IF endpointClient = "none" THEN <<>>
                      ELSE HttpsScheme \o <<"e", ".", "c", "o", "/", "t">>
    /\ tileEndpointToken = <<>>
    /\ PanelIdle
    /\ ui = NoUi
    /\ ClientIdle
    /\ ParseIdle
    /\ UrlIdle
    /\ PayloadIdle
    /\ CatalogIdle
    /\ FetchIdle
    /\ LayerIdle

restVars == <<clientVars, parseVars, urlVars, payloadVars, catalogVars, fetchVars>>

NextPanel ==
    \/ onAdd /\ UNCHANGED restVars
    \/ onRemove /\ UNCHANGED restVars
    \/ ToggleInspector /\ UNCHANGED restVars
    \/ \E startDate \in DateValues, endDate \in DateValues :
          buildFrames(startDate, endDate) /\ UNCHANGED restVars
    \/ PrevFrame /\ UNCHANGED restVars
    \/ NextFrame /\ UNCHANGED restVars
    \/ \E idx \in 0..(Steps - 1) : FrameClick(idx) /\ UNCHANGED restVars
    \/ \E i \in 1..MaxLoads : SeriesAnswered(i) /\ UNCHANGED restVars
    \/ \E i \in 1..MaxLoads, answer \in TileAnswers :
          TileAnswered(i, answer) /\ UNCHANGED restVars

SpecPanel == InitPanel /\ [][NextPanel]_vars

\* C29 as stated: a non-empty frame list has 0 <= index < number of frames;
\* Prev at the first frame and Next at the last leave the index unchanged,
\* Generate resets it to 0, and Prev/Next with an empty list change nothing
\* and send no request.
C29_IndexInRangeGenerateResets ==
    /\ tsFrames # <<>> => tsIndex \in 0..(Len(tsFrames) - 1)
    /\ (ui.op = "prev" /\ ui.frames > 0 /\ ui.index = 0) => tsIndex = 0
    /\ (ui.op = "next" /\ ui.frames > 0 /\ ui.index = ui.frames - 1) => tsIndex = ui.index
    /\ ui.op = "generate" => tsIndex = 0
    /\ (ui.op \in {"prev", "next"} /\ ui.frames = 0)
          => tsIndex = ui.index /\ tsFrames = <<>> /\ ~ui.sent /\ tsLoads = <<>>

\* the latest Generate click found both date fields filled in
GeneratedWithDates == ui.op = "generate" /\ "" \notin Range(ui.report)

\* C29: a non-empty frame list has 0 <= index < number of frames; Prev at
\* the first frame and Next at the last leave the index unchanged; Generate
\* with both dates filled in makes the six frames and resets the index to 0,
\* and with a date missing leaves frames and index as they were; Prev/Next
\* with an empty list change nothing and send no request.
C29_IndexInRange ==
    /\ tsFrames # <<>> => tsIndex \in 0..(Len(tsFrames) - 1)
    /\ (ui.op = "prev" /\ ui.frames > 0 /\ ui.index = 0) => tsIndex = 0
    /\ (ui.op = "next" /\ ui.frames > 0 /\ ui.index = ui.frames - 1) => tsIndex = ui.index
    /\ GeneratedWithDates => tsIndex = 0 /\ Len(tsFrames) = Steps
    /\ (ui.op = "generate" /\ ~GeneratedWithDates)
          => tsIndex = ui.index /\ Len(tsFrames) = ui.frames
    /\ (ui.op \in {"prev", "next"} /\ ui.frames = 0)
          => tsIndex = ui.index /\ tsFrames = <<>> /\ ~ui.sent /\ tsLoads = <<>>

C29_Witness ==
    /\ ui.op = "generate"
    /\ ~GeneratedWithDates
    /\ ui.frames = Steps
    /\ tsIndex = Steps - 1
    /\ tsLoads # <<>>


\* C30: while the control is on a map, at most one inspector click handler
\* is registered on the map, and one is registered exactly when
\* _inspectorActive is true; once the inspector is disabled or the control
\* removed, no inspector handler is registered, none is held, and the flag
\* is false.
C30_OneHandlerIffActive ==
    /\ attached => /\ clickHandlers \in {0, 1}
                   /\ clickHandlers = 1 <=> inspectorActive
    /\ ~inspectorActive => clickHandlers = 0 /\ ~mapClickHandler
    /\ ~attached => ~inspectorActive

\* the control was removed and added again, and its inspector then switched on
C30_Witness ==
    /\ attached
    /\ ui.op = "toggle"
    /\ inspectorActive
    /\ mapClickHandler
    /\ clickHandlers = 1
    /\ tsButtons = 0
    /\ tsFrames # <<>>

====
